---- MODULE Spec2Model ----
(***************************************************************************)
(* HealthInformer: the policy store (documents / embeddings), the upload   *)
(* step of the crawling pipeline, the policy grouper, the retrieval tool   *)
(* and the conversation loop of the chatbot, and the sign-up transaction   *)
(* of the user tables, as state machines over one relational store; the    *)
(* two command-line programs, the chatbot object, the context assembler,   *)
(* the conversation repository, the profile normalizer and the             *)
(* connections of the user repository.                                     *)
(***************************************************************************)
EXTENDS Integers, Sequences, FiniteSets, TLC

(***************************************************************************)
(* Bounds of the model.                                                    *)
(***************************************************************************)
\* largest value the documents.id sequence may reach
MaxSeq == 4
\* largest number of records handed to one upload_records call
MaxRecords == 3
\* number of upload_records calls in one behaviour of SpecUpload
MaxCalls == 2
\* largest commit_every tried besides the default
MaxCommitEvery == 2
\* largest documents.id in SpecStore
MaxStmtDocs == 2
\* largest batch size tried
MaxBatch == 2
\* number of documents uploaded in SpecConcurrent
MaxConcurrentDocs == 3
\* number of documents uploaded before the chatbot is initialized
MaxAgentDocs == 1
\* number of questions asked in one conversation
MaxTurns == 1
\* number of answer chunks the model streams in one turn
MaxChunks == 1
\* number of create_user_and_profile calls
MaxSignups == 3
\* largest number of records the crawlers collect in one run of the pipeline
MaxCollected == 2
\* longest message list saved, and number of save_full_conversation calls
MaxMessages == 2
MaxSaves == 2
\* largest turn_count of a state handed to assemble
MaxTurnCount == 30
\* number of update_user_password and delete_user_account calls
MaxRepoCalls == 1
\* number of documents uploaded before the tool ranks them
MaxRankDocs == 7
\* largest number of records of an upload on a grouped store
MaxRegroupRecords == 2
\* number of documents uploaded before a chatbot is made
MaxBotDocs == 2

(***************************************************************************)
(* Program constants.                                                      *)
(***************************************************************************)
\* policy_id is inserted as None (SQL NULL); ids start at 1
NULL == 0
\* upload_records(..., commit_every=50)
CommitEveryDefault == 50
\* LIMIT 7 of search_with_score
SearchLimit == 7
\* group_policies(threshold=0.85, batch_size=500): the threshold is
\* ThresholdNum / ThresholdDen
ThresholdNum == 17
ThresholdDen == 20
BatchSizeDefault == 500
\* AgentExecutor(..., max_iterations=5)
max_iterations == 5
\* the exit code of a process whose main returns, and sys.exit(1)
ExitOk == 0
ExitError == 1
\* HealthCareChatbot(region=None), initialize(region=None, limit=None)
NoRegion == ""
NoLimit == 0
\* state.get("turn_count") and state.get("rolling_summary") when the key is
\* missing
NoTurnCount == [given |-> FALSE, value |-> 0]
NoSummary == "None"
\* the rolling summary is regenerated every SummaryEvery turns
SummaryEvery == 15
\* the regions of documents and the values of --limit
Regions == {"gangnam", "seocho"}
Limits == {NoLimit, 1}

Fields == {"title", "requirements", "benefits"}

\* get_embedding's falsy result (None or []): "if vec:" skips the field
NoVec == <<>>

\* embeddings are modelled as integer vectors of dimension 2
TitleVecs == {<<1, 0>>, <<2, 1>>, <<1, 1>>}
ReqVecs == {<<-1, 2>>}
BenVecs == {<<-1, 1>>}

\* what get_embedding returns for the three texts of one record
Records ==
    [title : TitleVecs \cup {NoVec},
     requirements : ReqVecs \cup {NoVec},
     benefits : BenVecs \cup {NoVec}]

\* embeddings given to single INSERT INTO embeddings statements
StmtVecs == {<<1, 0>>, <<1, 1>>}

\* query embeddings
Queries == {<<1, 0>>, <<1, 1>>}

\* records used where only the number of records matters
UploadRecords ==
    {r \in Records :
        \/ r.title # NoVec /\ r.requirements # NoVec /\ r.benefits # NoVec
           /\ r.title = <<1, 0>>
        \/ r.title = NoVec /\ r.requirements # NoVec /\ r.benefits = NoVec}

VARIABLES
    \* ---- the store (committed state) ----
    documents,      \* set of rows [id, policy_id, llm_reinforced]
    embeddings,     \* set of rows [doc_id, field, embedding]
    doc_seq,        \* last value of the BIGSERIAL sequence of documents.id
    \* ---- upload_records ----
    up_pc,          \* "idle" | "loop" | "returned" | "raised"
    connected,      \* psycopg2.connect was called by the current call
    total,          \* len(records)
    inserted,       \* the loop's counter
    commit_every,
    reset,
    tx_documents,   \* rows inserted by the open transaction, not yet committed
    tx_embeddings,
    calls,          \* number of upload_records calls made
    \* history of the current call
    entry_documents,
    entry_embeddings,
    entry_seq,
    up_log,         \* per processed record: the rows it inserted
    fail_k,         \* 1-based number of the record whose processing failed, 0 if none
    fail_stage,     \* where that record's processing failed, "none" if nowhere
    \* ---- one INSERT INTO embeddings statement ----
    stmt_rows,      \* the rows the last statement was given
    stmt_out,       \* "none" | "ok" | "unique_violation"
    \* ---- search_with_score ----
    query_embedding,
    rows,           \* result.fetchall()
    search_out,     \* "none" | "list" | "no_results" | "error"
    fetched,        \* the query ran and result.fetchall() returned
    \* ---- assign_policy_ids (the grouper) ----
    g_pc,           \* "idle" | "running" | "done" | "failed" | "crashed"
    batch_size,
    reset_all_on_start,
    cursor,         \* largest id loaded so far in this run
    batch,          \* ids of the open batch still to process, ascending
    batch_open,     \* a batch is loaded and not yet committed
    pending,        \* assignments of the open batch, not yet committed
    run_index,      \* comparison set: rows [id, policy_id, embedding]
    founded,        \* summary: groups founded in this run
    merged,         \* summary: documents merged into a group in this run
    n_batches,      \* summary: batches committed in this run
    \* history of the current run
    start_docs,     \* documents as the run's first batch finds them
    batch_log,      \* per loaded batch: [docs: ids grouped, skipped: ids skipped]
    seen,           \* the ids taken from batches, in the order taken
    after_done,     \* the run started, without reset, right after a completed run
    \* ---- run_conversation (the agent loop) ----
    loop_pc,        \* "off" | "idle" | "responding" | "exit"
    raw_input,      \* the line input() returned last, a sequence of characters
    user_input,     \* the line stripped
    route,          \* branch the last line took: "none" | "exit" | "reset" | "empty" | "turn"
    chat_history,   \* sequence of messages [role, content]
    full_response,  \* the chunks printed in the current turn, concatenated
    ex_pc,          \* the executor: "none" | "plan" | "done" | "stopped" | "raised"
    iterations,     \* tool-call rounds the executor made in the current turn
    events,         \* events the executor emitted that the loop has not consumed
    n_chunks,       \* answer chunks streamed in the current turn
    turns,          \* questions asked so far
    \* history of the conversation
    produced,       \* the non-empty chunks the executor streamed in the current turn
    cleared,        \* number of messages the last reset command removed
    \* ---- create_user_and_profile ----
    users,          \* set of rows [id, username, main_profile_id]
    profiles,       \* set of rows [id, user_id]
    collections,    \* set of rows [id, profile_id]
    user_seq,       \* number of uuid4 values drawn
    profile_seq,    \* last value of the sequence of profiles.id
    collection_seq, \* last value of the sequence of collections.id
    signups,        \* number of calls made
    cu_username,    \* the username of the last call, stripped
    cu_fault,       \* where the last call failed, "none" if nowhere
    cu_entry,       \* the three tables when the last call began
    cu_result,      \* what the last call returned: [ok, message]
    \* ---- dbsetup_pipeline.main ----
    pm_pc,          \* "off" | "collect" | "upload" | "uploading" | "group" | "grouping" | "exited"
    pm_reset,       \* args.reset
    pm_group,       \* args.group
    pm_batch_size,  \* args.batch_size
    mem_data,       \* len(mem_data)
    pm_exit,        \* the exit code of the process, once pm_pc = "exited"
    pm_error,       \* an exception escaped one of the operations main called
    pm_trace,       \* the operations main has called, in order
    \* ---- the region column of documents ----
    doc_region,     \* set of [id, region]
    \* ---- HealthCareChatbot ----
    bot_pc,         \* "none" | "made": the object has been constructed
    bot_region,     \* self.region
    structured_data, \* ids of the documents load_data loaded
    vector_store,   \* self.vector_store is set
    agent_executor, \* self.agent_executor is set
    bot_call,       \* the last method called: [method, fault, raised]
    vs_found,       \* load_vector_store has found a non-empty embeddings table
    \* ---- healthcare_chatbot.main ----
    cm_pc,          \* "off" | "initialize" | "run" | "conversation" | "exited"
    cm_region,      \* args.region
    cm_limit,       \* args.limit
    cm_exit,        \* the exit code of the process, once cm_pc = "exited"
    cm_error,       \* an exception escaped initialize or run_conversation
    \* ---- _normalize_sex ----
    ns_gender,      \* the argument of the last call, a sequence of characters
    ns_result,      \* what the last call returned
    \* ---- context_assembler.assemble ----
    as_state,       \* the state the last call was given: [turn_count, rolling_summary]
    as_out,         \* "not_called" | "returned" | "raised"
    as_result,      \* what the last call returned: [rolling_summary, messages]
    as_summarized,  \* the last call called _summarize
    \* ---- chat_repository.save_full_conversation ----
    conversations,  \* rows [id, profile_id] the cursor's transaction holds
    chat_messages,  \* rows [conversation_id, turn_index, role, content]
    conv_seq,       \* number of uuid4 values drawn for conversation ids
    sv_messages,    \* the message list of the last call
    sv_log,         \* the statements the last call issued, in order
    sv_result,      \* what the last call returned or raised
    sv_calls,       \* number of calls made
    \* ---- the connections of the user repository ----
    open_conns,     \* connections get_db_connection returned that are not closed
    ur_op,          \* the last operation called
    ur_path,        \* the path on which it returned
    ur_calls        \* number of update and delete calls made

store_vars == <<documents, embeddings, doc_seq>>
upload_vars ==
    <<up_pc, connected, total, inserted, commit_every, reset, tx_documents,
      tx_embeddings, calls, entry_documents, entry_embeddings, entry_seq, up_log,
      fail_k, fail_stage>>
stmt_vars == <<stmt_rows, stmt_out>>
search_vars == <<query_embedding, rows, search_out, fetched>>
group_vars ==
    <<g_pc, batch_size, reset_all_on_start, cursor, batch, batch_open, pending,
      run_index, founded, merged, n_batches, start_docs, batch_log, seen,
      after_done>>
agent_vars ==
    <<loop_pc, raw_input, user_input, route, chat_history, full_response, ex_pc,
      iterations, events, n_chunks, turns, produced, cleared>>
user_vars ==
    <<users, profiles, collections, user_seq, profile_seq, collection_seq,
      signups, cu_username, cu_fault, cu_entry, cu_result>>
pipeline_vars ==
    <<pm_pc, pm_reset, pm_group, pm_batch_size, mem_data, pm_exit, pm_error,
      pm_trace>>
bot_vars ==
    <<bot_pc, bot_region, structured_data, vector_store, agent_executor,
      bot_call, vs_found>>
chatmain_vars == <<cm_pc, cm_region, cm_limit, cm_exit, cm_error>>
normalizer_vars == <<ns_gender, ns_result>>
assemble_vars == <<as_state, as_out, as_result, as_summarized>>
chatrepo_vars ==
    <<conversations, chat_messages, conv_seq, sv_messages, sv_log, sv_result,
      sv_calls>>
conn_vars == <<open_conns, ur_op, ur_path, ur_calls>>
lib_vars == <<normalizer_vars, assemble_vars, chatrepo_vars, conn_vars>>
not_pipeline_vars == <<doc_region, bot_vars, chatmain_vars, lib_vars>>
ext_vars == <<pipeline_vars, not_pipeline_vars>>
\* the chatbot's conversation, the user tables and the command-line programs
app_vars == <<agent_vars, user_vars, ext_vars>>
vars ==
    <<store_vars, upload_vars, stmt_vars, search_vars, group_vars, agent_vars,
      user_vars, ext_vars>>
\* the store, the pipeline and the chatbot
core_vars ==
    <<store_vars, upload_vars, stmt_vars, search_vars, group_vars, agent_vars,
      pipeline_vars, doc_region, bot_vars, chatmain_vars>>
\* what upload_records does not touch
not_upload_vars == <<stmt_vars, search_vars, group_vars, app_vars>>

(***************************************************************************)
(* The store: documents(id BIGSERIAL PRIMARY KEY, ..., policy_id, ...) and *)
(* embeddings(doc_id REFERENCES documents ON DELETE CASCADE, field,        *)
(* embedding, UNIQUE (doc_id, field)).                                     *)
(***************************************************************************)
\* INSERT INTO documents (...) VALUES (..., policy_id = None, ..., False, None)
DocumentRowGrouped(id) ==
    [id |-> id, policy_id |-> id, llm_reinforced |-> FALSE]

DocumentRow(id) ==
    [id |-> id, policy_id |-> NULL, llm_reinforced |-> FALSE]

\* the rows upload_records builds for one document: one per field whose
\* embedding is truthy
EmbRows(doc_id, rec) ==
    {[doc_id |-> doc_id, field |-> f, embedding |-> rec[f]] :
        f \in {g \in Fields : rec[g] # NoVec}}

\* UNIQUE (doc_id, field): a row of the same pair is already visible
UniqueViolation(visible, new_rows) ==
    \E r \in new_rows : \E e \in visible :
        e.doc_id = r.doc_id /\ e.field = r.field

\* doc_id REFERENCES documents(id)
ForeignKeyViolation(docs, new_rows) ==
    \E r \in new_rows : \A d \in docs : d.id # r.doc_id

\* "if inserted % commit_every == 0: conn.commit()"
CommitDueAlways(n, every) == TRUE

CommitDue(n, every) == n % every = 0

\* the number of records the commits of the loop have made durable when the
\* loop counter is n
Durable(n, every) == (n \div every) * every

(***************************************************************************)
(* upload_records(records, reset, emb_model, commit_every)                 *)
(***************************************************************************)
CommitEveryValues == (1..MaxCommitEvery) \cup {CommitEveryDefault}
ResetValues == {"none", "truncate"}

\* "if not records: return", before anything else
NoRecords(n) == n = 0

\* psycopg2.connect is reached only past the early return
Connects(n) == ~NoRecords(n)

\* TRUNCATE TABLE embeddings, documents RESTART IDENTITY CASCADE, reached
\* only past the early return and only when reset != "none"
TruncateOnCallEarly(n, rst) == rst # "none"

TruncateOnCall(n, rst) == ~NoRecords(n) /\ rst # "none"

\* the call up to the loop: early return, connect, optional truncate + commit
upload_records_call_body(n, rst, every) ==
    /\ up_pc # "loop"
    /\ calls < MaxCalls
    /\ (IF TruncateOnCall(n, rst) THEN 0 ELSE doc_seq) + n <= MaxSeq
    /\ calls' = calls + 1
    /\ total' = n
    /\ reset' = rst
    /\ commit_every' = every
    /\ inserted' = 0
    /\ connected' = Connects(n)
    /\ entry_documents' = documents
    /\ entry_embeddings' = embeddings
    /\ entry_seq' = doc_seq
    /\ up_log' = <<>>
    /\ fail_k' = 0
    /\ fail_stage' = "none"
    /\ tx_documents' = {}
    /\ tx_embeddings' = {}
    /\ up_pc' = IF NoRecords(n) THEN "returned" ELSE "loop"
    /\ IF TruncateOnCall(n, rst)
       THEN documents' = {} /\ embeddings' = {} /\ doc_seq' = 0
       ELSE UNCHANGED store_vars

upload_records_call(n, rst, every) ==
    /\ upload_records_call_body(n, rst, every)
    /\ UNCHANGED not_upload_vars

\* one iteration of the loop that raises nothing: INSERT the document,
\* INSERT its embeddings, count it, commit when the counter is due
upload_records_iter(rec) ==
    /\ UNCHANGED not_upload_vars
    /\ up_pc = "loop"
    /\ inserted < total
    /\ LET doc == DocumentRow(doc_seq + 1)
           emb_rows == EmbRows(doc.id, rec)
           docs_now == tx_documents \cup {doc}
           embs_now == tx_embeddings \cup emb_rows
       IN  /\ ~UniqueViolation(embeddings \cup tx_embeddings, emb_rows)
           /\ ~ForeignKeyViolation(documents \cup docs_now, emb_rows)
           /\ doc_seq' = doc_seq + 1
           /\ inserted' = inserted + 1
           /\ up_log' = Append(up_log, [doc |-> doc, embs |-> emb_rows, rec |-> rec])
           /\ IF CommitDue(inserted + 1, commit_every)
              THEN /\ documents' = documents \cup docs_now
                   /\ embeddings' = embeddings \cup embs_now
                   /\ tx_documents' = {}
                   /\ tx_embeddings' = {}
              ELSE /\ tx_documents' = docs_now
                   /\ tx_embeddings' = embs_now
                   /\ UNCHANGED <<documents, embeddings>>
    /\ UNCHANGED <<up_pc, connected, total, commit_every, reset, calls,
                   entry_documents, entry_embeddings, entry_seq, fail_k,
                   fail_stage>>

\* get_embedding fails when the embedding service is unreachable or returns
\* malformed output
EmbeddingError == "embed"

\* where one iteration can raise
FailStages == {"insert_doc", EmbeddingError, "insert_emb", "commit"}

\* one iteration that raises at `stage`: except -> conn.rollback(); raise
upload_records_fail(rec, stage) ==
    /\ UNCHANGED not_upload_vars
    /\ up_pc = "loop"
    /\ inserted < total
    /\ stage = "insert_emb" => EmbRows(doc_seq + 1, rec) # {}
    /\ stage = "commit" => CommitDue(inserted + 1, commit_every)
    /\ doc_seq' = IF stage = "insert_doc" THEN doc_seq ELSE doc_seq + 1
    /\ tx_documents' = {}
    /\ tx_embeddings' = {}
    /\ fail_k' = inserted + 1
    /\ fail_stage' = stage
    /\ up_pc' = "raised"
    /\ UNCHANGED <<documents, embeddings, connected, total, inserted,
                   commit_every, reset, calls, entry_documents,
                   entry_embeddings, entry_seq, up_log>>

\* after the loop: the final conn.commit() and the return
upload_records_finish ==
    /\ UNCHANGED not_upload_vars
    /\ up_pc = "loop"
    /\ inserted = total
    /\ documents' = documents \cup tx_documents
    /\ embeddings' = embeddings \cup tx_embeddings
    /\ tx_documents' = {}
    /\ tx_embeddings' = {}
    /\ up_pc' = "returned"
    /\ UNCHANGED <<doc_seq, connected, total, inserted, commit_every, reset,
                   calls, entry_documents, entry_embeddings, entry_seq, up_log,
                   fail_k, fail_stage>>

\* the final conn.commit() raises: rollback, raise
upload_records_finish_fails ==
    /\ UNCHANGED not_upload_vars
    /\ up_pc = "loop"
    /\ inserted = total
    /\ tx_documents' = {}
    /\ tx_embeddings' = {}
    /\ up_pc' = "raised"
    /\ UNCHANGED <<documents, embeddings, doc_seq, connected, total, inserted,
                   commit_every, reset, calls, entry_documents,
                   entry_embeddings, entry_seq, up_log, fail_k, fail_stage>>

(***************************************************************************)
(* upload_records as one step: a call with the single record `rec`,        *)
(* reset = "none", in which nothing raises (INSERT document, INSERT        *)
(* embeddings, commit).                                                    *)
(***************************************************************************)
upload_records_one_body(rec) ==
    /\ up_pc # "loop"
    /\ LET doc == DocumentRow(doc_seq + 1)
           new_rows == EmbRows(doc.id, rec)
       IN  /\ ~UniqueViolation(embeddings, new_rows)
           /\ ~ForeignKeyViolation(documents \cup {doc}, new_rows)
           /\ doc_seq' = doc_seq + 1
           /\ documents' = documents \cup {doc}
           /\ embeddings' = embeddings \cup new_rows

upload_records_one(rec) ==
    /\ doc_seq < MaxSeq
    /\ upload_records_one_body(rec)

(***************************************************************************)
(* The statements of upload_records, one at a time and each committed,     *)
(* with parameters from bounded sets.                                      *)
(***************************************************************************)
\* INSERT INTO documents (...) RETURNING id
insert_document ==
    /\ doc_seq < MaxStmtDocs
    /\ doc_seq' = doc_seq + 1
    /\ documents' = documents \cup {DocumentRow(doc_seq + 1)}
    /\ UNCHANGED <<embeddings, upload_vars, app_vars, stmt_vars, search_vars, group_vars>>

\* what "INSERT INTO embeddings (doc_id, field, embedding) VALUES %s" leaves
\* in the table: the statement has no ON CONFLICT clause, so a row of a pair
\* that exists violates UNIQUE (doc_id, field) and the statement inserts
\* nothing
InsertEmbeddingsUnchecked(table, new_rows) == table \cup new_rows

InsertEmbeddings(table, new_rows) ==
    IF UniqueViolation(table, new_rows) THEN table ELSE table \cup new_rows

\* the statement for one row of an existing document
insert_embeddings(doc_id, f, vec) ==
    /\ \E d \in documents : d.id = doc_id
    /\ LET new_rows == {[doc_id |-> doc_id, field |-> f, embedding |-> vec]}
       IN  /\ stmt_rows' = new_rows
           /\ stmt_out' = IF UniqueViolation(embeddings, new_rows)
                          THEN "unique_violation" ELSE "ok"
           /\ embeddings' = InsertEmbeddings(embeddings, new_rows)
    /\ UNCHANGED <<documents, doc_seq, upload_vars, app_vars, search_vars, group_vars>>

\* doc_id REFERENCES documents(id) ON DELETE CASCADE: what is left of the
\* embeddings when document id is deleted
NoCascade(embs, id) == embs

Cascade(embs, id) == {e \in embs : e.doc_id # id}

\* DELETE FROM documents WHERE id = ..., committed, between two uploads
delete_document(id) ==
    /\ up_pc # "loop"
    /\ \E d \in documents : d.id = id
    /\ documents' = {d \in documents : d.id # id}
    /\ embeddings' = Cascade(embeddings, id)
    /\ UNCHANGED <<doc_seq, upload_vars, app_vars, stmt_vars, search_vars, group_vars>>

\* TRUNCATE TABLE embeddings, documents RESTART IDENTITY CASCADE
truncate_tables ==
    /\ documents # {}
    /\ documents' = {}
    /\ embeddings' = {}
    /\ doc_seq' = 0
    /\ stmt_rows' = {}
    /\ stmt_out' = "none"
    /\ UNCHANGED <<upload_vars, app_vars, search_vars, group_vars>>

(***************************************************************************)
(* Cosine similarity, on integer vectors: cos(a, b) = a.b / (|a| |b|).     *)
(* Comparisons of cosines are made on sign(a.b) (a.b)^2 / (|a|^2 |b|^2).   *)
(***************************************************************************)
Dot(a, b) == a[1] * b[1] + a[2] * b[2]
Norm2(a) == Dot(a, a)
SignedSq(x) == IF x >= 0 THEN x * x ELSE -(x * x)

\* cos(q, a) >= cos(q, b), that is (q <=> a) <= (q <=> b)
CloserOrEqual(q, a, b) ==
    SignedSq(Dot(q, a)) * Norm2(b) >= SignedSq(Dot(q, b)) * Norm2(a)

SameSimilarity(q, a, b) == CloserOrEqual(q, a, b) /\ CloserOrEqual(q, b, a)

(***************************************************************************)
(* search_with_score(query)                                                *)
(***************************************************************************)
\* FROM documents d JOIN embeddings e ON d.id = e.doc_id
JoinGrouped(docs, embs) ==
    {[id |-> e.doc_id, field |-> e.field, embedding |-> e.embedding] :
        e \in {x \in embs :
                 \E d \in docs : d.id = x.doc_id /\ d.policy_id # NULL}}

\* the join with "WHERE d.region = :region" added
JoinRegion(docs, embs) ==
    {[id |-> e.doc_id, field |-> e.field, embedding |-> e.embedding] :
        e \in {x \in embs :
                 \E d \in docs :
                    /\ d.id = x.doc_id
                    /\ bot_region # NoRegion =>
                          [id |-> d.id, region |-> bot_region] \in doc_region}}

Join(docs, embs) ==
    {[id |-> e.doc_id, field |-> e.field, embedding |-> e.embedding] :
        e \in {x \in embs : \E d \in docs : d.id = x.doc_id}}

JoinRows == Join(documents, embeddings)

\* the rows that may come first under ORDER BY e.embedding <=> q
FarthestFirst(S, q) ==
    {r \in S : \A o \in S : CloserOrEqual(q, o.embedding, r.embedding)}

First(S, q) ==
    {r \in S : \A o \in S : CloserOrEqual(q, r.embedding, o.embedding)}

\* ORDER BY e.embedding <=> q LIMIT k: every list the executor may return;
\* the statement names no second sort key, so rows at the same distance
\* come in any order
RECURSIVE OrderByLimit(_, _, _)
OrderByLimit(S, q, k) ==
    IF k = 0 \/ S = {}
    THEN {<<>>}
    ELSE UNION {{<<r>> \o t : t \in OrderByLimit(S \ {r}, q, k - 1)} :
                    r \in First(S, q)}

\* "if not rows: return <no results>", else the formatted list
SearchOutcomeEmptyIsError(res) == IF res = <<>> THEN "error" ELSE "list"

SearchOutcome(res) == IF res = <<>> THEN "no_results" ELSE "list"

\* the body of the tool when nothing raises
search_with_score_body(q) ==
    /\ query_embedding' = q
    /\ fetched' = TRUE
    /\ \E res \in OrderByLimit(JoinRows, q, SearchLimit) :
          /\ rows' = res
          /\ search_out' = SearchOutcome(res)

\* the body of the tool when embed_query or the query raises: "except
\* Exception" returns the error text
search_with_score_error_body(q) ==
    /\ query_embedding' = q
    /\ rows' = <<>>
    /\ fetched' = FALSE
    /\ search_out' = "error"

\* the tool called on its own
search_with_score(q) ==
    /\ search_with_score_body(q)
    /\ UNCHANGED <<store_vars, upload_vars, stmt_vars, group_vars, app_vars>>

search_with_score_error(q) ==
    /\ search_with_score_error_body(q)
    /\ UNCHANGED <<store_vars, upload_vars, stmt_vars, group_vars, app_vars>>

\* records uploaded before searches
SearchRecords ==
    {r \in Records :
        \/ r.title = <<1, 0>> /\ r.requirements # NoVec /\ r.benefits # NoVec
        \/ r.title = <<2, 1>> /\ r.requirements # NoVec /\ r.benefits = NoVec
        \/ r.title = <<1, 1>> /\ r.requirements = NoVec /\ r.benefits = NoVec
        \/ r.title = NoVec /\ r.requirements = NoVec /\ r.benefits = NoVec}

(***************************************************************************)
(* HealthCareChatbot.run_conversation: the agent loop.  A line is a        *)
(* sequence of characters; a Hangul syllable is written as its             *)
(* romanisation ("jong", "ryo" for the two syllables of the Korean exit    *)
(* command, "cho", "gi", "hwa" for the three of the reset command).        *)
(***************************************************************************)
UpperLetters ==
    <<"A", "B", "C", "D", "E", "F", "G", "H", "I", "J", "K", "L", "M",
      "N", "O", "P", "Q", "R", "S", "T", "U", "V", "W", "X", "Y", "Z">>
LowerLetters ==
    <<"a", "b", "c", "d", "e", "f", "g", "h", "i", "j", "k", "l", "m",
      "n", "o", "p", "q", "r", "s", "t", "u", "v", "w", "x", "y", "z">>

\* str.strip(): leading and trailing whitespace removed
IsSpace(c) == c \in {" ", "\t", "\n"}

RECURSIVE LStrip(_)
LStrip(line) ==
    IF line # <<>> /\ IsSpace(Head(line)) THEN LStrip(Tail(line)) ELSE line

RECURSIVE RStrip(_)
RStrip(line) ==
    IF line # <<>> /\ IsSpace(line[Len(line)])
    THEN RStrip(SubSeq(line, 1, Len(line) - 1))
    ELSE line

Strip(line) == RStrip(LStrip(line))

\* str.lower(), character by character
LowerKeep(c) == c

Lower(c) ==
    IF \E i \in 1..Len(UpperLetters) : UpperLetters[i] = c
    THEN LowerLetters[CHOOSE i \in 1..Len(UpperLetters) : UpperLetters[i] = c]
    ELSE c

LowerStr(line) == [i \in 1..Len(line) |-> Lower(line[i])]

\* ["exit", "quit", "종료"] and ["reset", "clear", "초기화"]
ExitCommands ==
    {<<"e", "x", "i", "t">>, <<"q", "u", "i", "t">>, <<"jong", "ryo">>}
ResetCommands ==
    {<<"r", "e", "s", "e", "t">>, <<"c", "l", "e", "a", "r">>,
     <<"cho", "gi", "hwa">>}

\* the branch of the loop body a line takes, in the order the code tests
Route(line) ==
    LET stripped == Strip(line)
    IN  IF LowerStr(stripped) \in ExitCommands THEN "exit"
        ELSE IF LowerStr(stripped) \in ResetCommands THEN "reset"
        ELSE IF stripped = <<>> THEN "empty"
        ELSE "turn"

\* the lines typed
Lines ==
    {<<"e", "x", "i", "t">>,
     <<" ", "E", "X", "I", "T", " ">>,
     <<"Q", "u", "i", "t">>,
     <<"jong", "ryo", "\n">>,
     <<"r", "e", "s", "e", "t">>,
     <<"C", "L", "E", "A", "R", " ">>,
     <<"\t", "cho", "gi", "hwa">>,
     <<>>,
     <<" ", " ">>,
     <<"e", "x", "i", "t", "s">>,
     <<" ", "h", "i">>}

\* records uploaded before the chatbot starts, and the queries the model
\* hands to the tool
AgentRecords ==
    {r \in Records :
        r.title = <<1, 0>> /\ r.requirements = NoVec /\ r.benefits = NoVec}
AgentQueries == {<<1, 0>>}

\* a chunk of the final answer; the chunks of a tool-call message have
\* empty content
AnswerChunks == {<<"a">>}
EmptyChunk == <<>>

\* "chat_history = []"
HistoryKept(history) == history

HistoryAfterReset(history) == <<>>

\* AgentExecutor._should_continue: iterations < max_iterations
RoundAllowedTwice(n) == n < 2 * max_iterations

RoundAllowed(n) == n < max_iterations

\* "async for event in ...astream_events(...)" ends when the stream is closed
\* and every event sent has been received
StreamEndedEarly(evs) == TRUE

StreamEnded(evs) == evs = <<>>

\* initialize() and the start of run_conversation: load_data must find
\* documents and load_vector_store embeddings, then "chat_history = []"
initialize ==
    /\ loop_pc = "off"
    /\ documents # {}
    /\ embeddings # {}
    /\ loop_pc' = "idle"
    /\ chat_history' = <<>>
    /\ bot_pc' = "made"
    /\ bot_region' = NoRegion
    /\ structured_data' = {d.id : d \in documents}
    /\ vector_store' = TRUE
    /\ vs_found' = TRUE
    /\ agent_executor' = TRUE
    /\ bot_call' = [method |-> "run_conversation", fault |-> "none",
                    raised |-> FALSE]
    /\ UNCHANGED <<raw_input, user_input, route, full_response, ex_pc,
                   iterations, events, n_chunks, turns, produced, cleared>>
    /\ UNCHANGED <<store_vars, upload_vars, stmt_vars, search_vars, group_vars,
                   user_vars, pipeline_vars, doc_region, chatmain_vars, lib_vars>>

\* a termination command: "break"
read_exit(line) ==
    /\ loop_pc = "idle"
    /\ Route(line) = "exit"
    /\ raw_input' = line
    /\ user_input' = Strip(line)
    /\ route' = "exit"
    /\ loop_pc' = "exit"
    /\ UNCHANGED <<chat_history, full_response, ex_pc, iterations, events,
                   n_chunks, turns, produced, cleared>>
    /\ UNCHANGED <<store_vars, upload_vars, stmt_vars, search_vars, group_vars,
                   user_vars, ext_vars>>

\* a reset command: "chat_history = []", print_summary(), "continue"
read_reset(line) ==
    /\ loop_pc = "idle"
    /\ Route(line) = "reset"
    /\ raw_input' = line
    /\ user_input' = Strip(line)
    /\ route' = "reset"
    /\ chat_history' = HistoryAfterReset(chat_history)
    /\ cleared' = Len(chat_history)
    /\ UNCHANGED <<loop_pc, full_response, ex_pc, iterations, events, n_chunks,
                   turns, produced>>
    /\ UNCHANGED <<store_vars, upload_vars, stmt_vars, search_vars, group_vars,
                   user_vars, ext_vars>>

\* an empty line: "continue"
read_empty(line) ==
    /\ loop_pc = "idle"
    /\ Route(line) = "empty"
    /\ raw_input' = line
    /\ user_input' = Strip(line)
    /\ route' = "empty"
    /\ UNCHANGED <<loop_pc, chat_history, full_response, ex_pc, iterations,
                   events, n_chunks, turns, produced, cleared>>
    /\ UNCHANGED <<store_vars, upload_vars, stmt_vars, search_vars, group_vars,
                   user_vars, ext_vars>>

\* any other line: full_response = "", the executor's event stream is opened
read_question(line) ==
    /\ loop_pc = "idle"
    /\ Route(line) = "turn"
    /\ turns < MaxTurns
    /\ raw_input' = line
    /\ user_input' = Strip(line)
    /\ route' = "turn"
    /\ loop_pc' = "responding"
    /\ full_response' = <<>>
    /\ ex_pc' = "plan"
    /\ iterations' = 0
    /\ events' = <<>>
    /\ n_chunks' = 0
    /\ produced' = <<>>
    /\ turns' = turns + 1
    /\ UNCHANGED <<chat_history, cleared>>
    /\ UNCHANGED <<store_vars, upload_vars, stmt_vars, search_vars, group_vars,
                   user_vars, ext_vars>>

\* the model streams a chunk of its answer
agent_stream_chunk(chunk) ==
    /\ loop_pc = "responding"
    /\ ex_pc = "plan"
    /\ RoundAllowed(iterations)
    /\ n_chunks < MaxChunks
    /\ events' = Append(events, [event |-> "on_chat_model_stream", chunk |-> chunk])
    /\ produced' = produced \o chunk
    /\ n_chunks' = n_chunks + 1
    /\ UNCHANGED <<loop_pc, raw_input, user_input, route, chat_history,
                   full_response, ex_pc, iterations, turns, cleared>>
    /\ UNCHANGED <<store_vars, upload_vars, stmt_vars, search_vars, group_vars,
                   user_vars, ext_vars>>

\* the events of one tool-call round: the model's tool-call message, whose
\* content is empty, and the start of the tool
RoundEvents ==
    <<[event |-> "on_chat_model_stream", chunk |-> EmptyChunk],
      [event |-> "on_tool_start", chunk |-> EmptyChunk]>>

\* one round: the model requests the tool, the executor runs it
agent_tool_round(q) ==
    /\ loop_pc = "responding"
    /\ ex_pc = "plan"
    /\ RoundAllowed(iterations)
    /\ events' = events \o RoundEvents
    /\ iterations' = iterations + 1
    /\ search_with_score_body(q)
    /\ UNCHANGED <<loop_pc, raw_input, user_input, route, chat_history,
                   full_response, ex_pc, n_chunks, turns, produced, cleared>>
    /\ UNCHANGED <<store_vars, upload_vars, stmt_vars, group_vars, user_vars,
                   ext_vars>>

\* one round in which the tool returns its error text
agent_tool_round_error(q) ==
    /\ loop_pc = "responding"
    /\ ex_pc = "plan"
    /\ RoundAllowed(iterations)
    /\ events' = events \o RoundEvents
    /\ iterations' = iterations + 1
    /\ search_with_score_error_body(q)
    /\ UNCHANGED <<loop_pc, raw_input, user_input, route, chat_history,
                   full_response, ex_pc, n_chunks, turns, produced, cleared>>
    /\ UNCHANGED <<store_vars, upload_vars, stmt_vars, group_vars, user_vars,
                   ext_vars>>

\* the model gives its final answer: the executor returns
agent_finish ==
    /\ loop_pc = "responding"
    /\ ex_pc = "plan"
    /\ RoundAllowed(iterations)
    /\ ex_pc' = "done"
    /\ UNCHANGED <<loop_pc, raw_input, user_input, route, chat_history,
                   full_response, iterations, events, n_chunks, turns, produced,
                   cleared>>
    /\ UNCHANGED <<store_vars, upload_vars, stmt_vars, search_vars, group_vars,
                   user_vars, ext_vars>>

\* the cap is reached: the executor returns its forced-stop output without
\* calling the model again
agent_stopped ==
    /\ loop_pc = "responding"
    /\ ex_pc = "plan"
    /\ ~RoundAllowed(iterations)
    /\ ex_pc' = "stopped"
    /\ UNCHANGED <<loop_pc, raw_input, user_input, route, chat_history,
                   full_response, iterations, events, n_chunks, turns, produced,
                   cleared>>
    /\ UNCHANGED <<store_vars, upload_vars, stmt_vars, search_vars, group_vars,
                   user_vars, ext_vars>>

\* the call of the model raises
agent_raises ==
    /\ loop_pc = "responding"
    /\ ex_pc = "plan"
    /\ RoundAllowed(iterations)
    /\ ex_pc' = "raised"
    /\ UNCHANGED <<loop_pc, raw_input, user_input, route, chat_history,
                   full_response, iterations, events, n_chunks, turns, produced,
                   cleared>>
    /\ UNCHANGED <<store_vars, upload_vars, stmt_vars, search_vars, group_vars,
                   user_vars, ext_vars>>

\* the body of "async for event": a chunk with content is printed and added
\* to full_response
consume_event ==
    /\ loop_pc = "responding"
    /\ events # <<>>
    /\ events' = Tail(events)
    /\ full_response' =
          IF Head(events).event = "on_chat_model_stream"
             /\ Head(events).chunk # EmptyChunk
          THEN full_response \o Head(events).chunk
          ELSE full_response
    /\ UNCHANGED <<loop_pc, raw_input, user_input, route, chat_history, ex_pc,
                   iterations, n_chunks, turns, produced, cleared>>
    /\ UNCHANGED <<store_vars, upload_vars, stmt_vars, search_vars, group_vars,
                   user_vars, ext_vars>>

\* chat_history.append(HumanMessage(content=user_input)) and
\* chat_history.append(AIMessage(content=full_response))
TurnMessagesReversed(input, response) ==
    <<[role |-> "ai", content |-> response],
      [role |-> "human", content |-> input]>>

TurnMessages(input, response) ==
    <<[role |-> "human", content |-> input],
      [role |-> "ai", content |-> response]>>

\* the stream has ended: the two messages of the turn are appended
end_turn ==
    /\ loop_pc = "responding"
    /\ ex_pc \in {"done", "stopped"}
    /\ StreamEnded(events)
    /\ chat_history' = chat_history \o TurnMessages(user_input, full_response)
    /\ loop_pc' = "idle"
    /\ UNCHANGED <<raw_input, user_input, route, full_response, ex_pc,
                   iterations, events, n_chunks, turns, produced, cleared>>
    /\ UNCHANGED <<store_vars, upload_vars, stmt_vars, search_vars, group_vars,
                   user_vars, ext_vars>>

\* the stream ended with the executor's exception: "except Exception" prints
\* it, the history is not updated
turn_fails ==
    /\ loop_pc = "responding"
    /\ ex_pc = "raised"
    /\ StreamEnded(events)
    /\ loop_pc' = "idle"
    /\ UNCHANGED <<raw_input, user_input, route, chat_history, full_response,
                   ex_pc, iterations, events, n_chunks, turns, produced, cleared>>
    /\ UNCHANGED <<store_vars, upload_vars, stmt_vars, search_vars, group_vars,
                   user_vars, ext_vars>>

(***************************************************************************)
(* HealthCareChatbot: the object's fields and its public methods.  The     *)
(* region column of documents is kept beside the rows, in doc_region.      *)
(***************************************************************************)
\* where a method can raise, or find the table unreadable
BotFaults == {"none", "load_data", "unreadable", "setup"}

\* "region_filter = region or self.region"
RegionFilter(region) == IF region # NoRegion THEN region ELSE bot_region

\* SELECT ... FROM documents [WHERE region = :region]
Selected(region) ==
    IF RegionFilter(region) = NoRegion
    THEN {d.id : d \in documents}
    ELSE {d.id : d \in
            {x \in documents :
                [id |-> x.id, region |-> RegionFilter(region)] \in doc_region}}

\* [LIMIT :limit]: the results the statement can give
Limited(S, limit) ==
    IF limit = NoLimit \/ Cardinality(S) <= limit
    THEN {S}
    ELSE {T \in SUBSET S : Cardinality(T) = limit}

\* "if not self.vector_store: raise ValueError"
VectorStoreMissingNever(vs) == FALSE

VectorStoreMissing(vs) == ~vs

\* HealthCareChatbot(region=...)
HealthCareChatbot(region) ==
    /\ bot_pc = "none"
    /\ bot_pc' = "made"
    /\ bot_region' = region
    /\ structured_data' = {}
    /\ vector_store' = FALSE
    /\ agent_executor' = FALSE
    /\ UNCHANGED <<bot_call, vs_found>>

\* load_data(region, limit): structured_data is assigned after the query
load_data_body(region, limit, fault) ==
    /\ bot_pc = "made"
    /\ IF fault = "load_data"
       THEN /\ bot_call' = [method |-> "load_data", fault |-> fault,
                            raised |-> TRUE]
            /\ UNCHANGED structured_data
       ELSE /\ bot_call' = [method |-> "load_data", fault |-> fault,
                            raised |-> FALSE]
            /\ structured_data' \in Limited(Selected(region), limit)
    /\ UNCHANGED <<bot_pc, bot_region, vector_store, agent_executor, vs_found>>

\* load_vector_store(): SELECT COUNT(*) FROM embeddings; None when the table
\* is empty or the query raises
load_vector_store_body(fault) ==
    /\ bot_pc = "made"
    /\ bot_call' = [method |-> "load_vector_store", fault |-> fault,
                    raised |-> FALSE]
    /\ IF fault = "unreadable" \/ Cardinality(embeddings) = 0
       THEN UNCHANGED <<vector_store, vs_found>>
       ELSE vector_store' = TRUE /\ vs_found' = TRUE
    /\ UNCHANGED <<bot_pc, bot_region, structured_data, agent_executor>>

\* setup_agent(): ValueError without the vector store; the executor is
\* assigned last
setup_agent_body(fault) ==
    /\ bot_pc = "made"
    /\ IF VectorStoreMissing(vector_store) \/ fault = "setup"
       THEN /\ bot_call' = [method |-> "setup_agent", fault |-> fault,
                            raised |-> TRUE]
            /\ UNCHANGED agent_executor
       ELSE /\ bot_call' = [method |-> "setup_agent", fault |-> fault,
                            raised |-> FALSE]
            /\ agent_executor' = TRUE
    /\ UNCHANGED <<bot_pc, bot_region, structured_data, vector_store, vs_found>>

\* initialize(region, limit): load_data, load_vector_store, setup_agent,
\* with a ValueError after each of the first two when it found nothing
initialize_body(region, limit, fault) ==
    /\ bot_pc = "made"
    /\ IF fault = "load_data"
       THEN /\ bot_call' = [method |-> "initialize", fault |-> fault,
                            raised |-> TRUE]
            /\ UNCHANGED <<structured_data, vector_store, agent_executor, vs_found>>
       ELSE /\ structured_data' \in Limited(Selected(region), limit)
            /\ IF structured_data' = {}
               THEN /\ bot_call' = [method |-> "initialize", fault |-> fault,
                                    raised |-> TRUE]
                    /\ UNCHANGED <<vector_store, agent_executor, vs_found>>
               ELSE IF fault = "unreadable" \/ Cardinality(embeddings) = 0
               THEN /\ bot_call' = [method |-> "initialize", fault |-> fault,
                                    raised |-> TRUE]
                    /\ UNCHANGED <<vector_store, agent_executor, vs_found>>
               ELSE /\ vector_store' = TRUE
                    /\ vs_found' = TRUE
                    /\ IF VectorStoreMissing(vector_store') \/ fault = "setup"
                       THEN /\ bot_call' = [method |-> "initialize", fault |-> fault,
                                            raised |-> TRUE]
                            /\ UNCHANGED agent_executor
                       ELSE /\ bot_call' = [method |-> "initialize", fault |-> fault,
                                            raised |-> FALSE]
                            /\ agent_executor' = TRUE
    /\ UNCHANGED <<bot_pc, bot_region>>

\* what the methods of the chatbot leave alone
not_bot_vars ==
    <<store_vars, upload_vars, stmt_vars, search_vars, group_vars, user_vars,
      doc_region, pipeline_vars, chatmain_vars, lib_vars>>

new_chatbot(region) ==
    HealthCareChatbot(region) /\ UNCHANGED <<agent_vars, not_bot_vars>>

load_data(region, limit, fault) ==
    load_data_body(region, limit, fault) /\ UNCHANGED <<agent_vars, not_bot_vars>>

load_vector_store(fault) ==
    load_vector_store_body(fault) /\ UNCHANGED <<agent_vars, not_bot_vars>>

setup_agent(fault) ==
    setup_agent_body(fault) /\ UNCHANGED <<agent_vars, not_bot_vars>>

initialize_call(region, limit, fault) ==
    initialize_body(region, limit, fault) /\ UNCHANGED <<agent_vars, not_bot_vars>>

\* run_conversation() up to the loop: ValueError without the executor, else
\* "chat_history = []" and the first prompt
run_conversation_body ==
    /\ bot_pc = "made"
    /\ loop_pc = "off"
    /\ IF ~agent_executor
       THEN /\ bot_call' = [method |-> "run_conversation", fault |-> "none",
                            raised |-> TRUE]
            /\ UNCHANGED <<loop_pc, chat_history>>
       ELSE /\ bot_call' = [method |-> "run_conversation", fault |-> "none",
                            raised |-> FALSE]
            /\ loop_pc' = "idle"
            /\ chat_history' = <<>>
    /\ UNCHANGED <<raw_input, user_input, route, full_response, ex_pc,
                   iterations, events, n_chunks, turns, produced, cleared>>
    /\ UNCHANGED <<bot_pc, bot_region, structured_data, vector_store,
                   agent_executor, vs_found>>

run_conversation == run_conversation_body /\ UNCHANGED not_bot_vars

\* input() raises EOFError outside the loop's try: it leaves run_conversation
read_eof ==
    /\ loop_pc = "idle"
    /\ loop_pc' = "raised"
    /\ route' = "eof"
    /\ UNCHANGED <<raw_input, user_input, chat_history, full_response, ex_pc,
                   iterations, events, n_chunks, turns, produced, cleared>>
    /\ UNCHANGED <<store_vars, upload_vars, stmt_vars, search_vars, group_vars,
                   user_vars, ext_vars>>

\* an upload of one record of the given region
upload_region(rec, region) ==
    /\ upload_records_one_body(rec)
    /\ doc_region' = doc_region \cup {[id |-> doc_seq + 1, region |-> region]}
    /\ UNCHANGED <<upload_vars, stmt_vars, search_vars, group_vars, agent_vars,
                   user_vars, bot_vars, pipeline_vars, chatmain_vars, lib_vars>>

(***************************************************************************)
(* healthcare_chatbot.main: construct, initialize, run_conversation.       *)
(* "except Exception" prints the error and main returns.                   *)
(***************************************************************************)
\* parser.parse_args() and HealthCareChatbot(region=args.region, ...)
chatbot_main_start(region, limit) ==
    /\ cm_pc = "off"
    /\ pm_pc = "off"
    /\ HealthCareChatbot(region)
    /\ cm_region' = region
    /\ cm_limit' = limit
    /\ cm_pc' = "initialize"
    /\ UNCHANGED <<cm_exit, cm_error>>
    /\ UNCHANGED <<agent_vars, store_vars, upload_vars, stmt_vars, search_vars,
                   group_vars, user_vars, doc_region, pipeline_vars, lib_vars>>

\* chatbot.initialize(region=args.region, limit=args.limit)
chatbot_main_initialize(fault) ==
    /\ cm_pc = "initialize"
    /\ initialize_body(cm_region, cm_limit, fault)
    /\ IF bot_call'.raised
       THEN cm_pc' = "exited" /\ cm_exit' = ExitOk /\ cm_error' = TRUE
       ELSE cm_pc' = "run" /\ UNCHANGED <<cm_exit, cm_error>>
    /\ UNCHANGED <<cm_region, cm_limit>>
    /\ UNCHANGED <<agent_vars, store_vars, upload_vars, stmt_vars, search_vars,
                   group_vars, user_vars, doc_region, pipeline_vars, lib_vars>>

\* asyncio.run(chatbot.run_conversation()) up to the loop
chatbot_main_run ==
    /\ cm_pc = "run"
    /\ run_conversation_body
    /\ IF bot_call'.raised
       THEN cm_pc' = "exited" /\ cm_exit' = ExitOk /\ cm_error' = TRUE
       ELSE cm_pc' = "conversation" /\ UNCHANGED <<cm_exit, cm_error>>
    /\ UNCHANGED <<cm_region, cm_limit>>
    /\ UNCHANGED <<store_vars, upload_vars, stmt_vars, search_vars, group_vars,
                   user_vars, doc_region, pipeline_vars, lib_vars>>

\* run_conversation has returned ("break"): the end of main
chatbot_main_returned ==
    /\ cm_pc = "conversation"
    /\ loop_pc = "exit"
    /\ cm_pc' = "exited"
    /\ cm_exit' = ExitOk
    /\ UNCHANGED <<cm_region, cm_limit, cm_error>>
    /\ UNCHANGED <<agent_vars, store_vars, upload_vars, stmt_vars, search_vars,
                   group_vars, user_vars, doc_region, bot_vars, pipeline_vars,
                   lib_vars>>

\* run_conversation has raised: except -> print, traceback; main returns
chatbot_main_raised ==
    /\ cm_pc = "conversation"
    /\ loop_pc = "raised"
    /\ cm_pc' = "exited"
    /\ cm_exit' = ExitOk
    /\ cm_error' = TRUE
    /\ UNCHANGED <<cm_region, cm_limit>>
    /\ UNCHANGED <<agent_vars, store_vars, upload_vars, stmt_vars, search_vars,
                   group_vars, user_vars, doc_region, bot_vars, pipeline_vars,
                   lib_vars>>

(***************************************************************************)
(* normalizer._normalize_sex(gender).  A string is a sequence of           *)
(* characters; the Hangul syllables of the Korean words for male and       *)
(* female are written "nam", "yeo" and "seong".                            *)
(***************************************************************************)
\* Python's None as a result
None == "None"

\* "needle in text"
Contains(text, needle) ==
    \E i \in 0..(Len(text) - Len(needle)) :
        SubSeq(text, i + 1, i + Len(needle)) = needle

\* str.upper(), character by character
Upper(c) ==
    IF \E i \in 1..Len(LowerLetters) : LowerLetters[i] = c
    THEN UpperLetters[CHOOSE i \in 1..Len(LowerLetters) : LowerLetters[i] = c]
    ELSE c

\* the tests of the two "if" statements, on gender.lower()
SaysMale(gender_lower) ==
    \/ Contains(gender_lower, <<"nam">>)
    \/ Contains(gender_lower, <<"m", "a", "l", "e">>)
    \/ gender_lower = <<"m">>

SaysFemale(gender_lower) ==
    \/ Contains(gender_lower, <<"yeo">>)
    \/ Contains(gender_lower, <<"f", "e", "m", "a", "l", "e">>)
    \/ gender_lower = <<"f">>

\* the value returned: "M", "F", None, or the first character in upper case
NormalizeSex(gender) ==
    IF gender = <<>> THEN None
    ELSE IF SaysMale(LowerStr(gender)) THEN "M"
    ELSE IF SaysFemale(LowerStr(gender)) THEN "F"
    ELSE Upper(gender[1])

\* the values of user_data["gender"]
Genders ==
    {<<"nam", "seong">>, <<"nam">>, <<"m", "a", "l", "e">>,
     <<"M", "a", "l", "e">>, <<"M", "A", "L", "E">>, <<"m">>, <<"M">>,
     <<"yeo", "seong">>, <<"yeo">>, <<"f", "e", "m", "a", "l", "e">>,
     <<"F", "e", "m", "a", "l", "e">>, <<"F", "E", "M", "A", "L", "E">>,
     <<"f">>, <<"F">>, <<>>, <<"x">>}

\* one call
normalize_sex(gender) ==
    /\ ns_gender' = gender
    /\ ns_result' = NormalizeSex(gender)
    /\ UNCHANGED <<core_vars, user_vars, assemble_vars, chatrepo_vars, conn_vars>>

(***************************************************************************)
(* create_user_and_profile(user_data): users, profiles and collections in  *)
(* one transaction.  The messages returned are named by what they say.     *)
(***************************************************************************)
\* user_data["username"] and user_data["password"], sequences of characters
Usernames == {<<"k">>, <<" ", "k">>, <<"l">>, <<" ">>}
Passwords == {<<"p">>, <<>>}

\* where a call can fail and with which exception: get_db_connection
\* returning None, psycopg2.IntegrityError, another psycopg2.Error, any
\* other exception
Faults ==
    {[stage |-> "none", error |-> "none"],
     [stage |-> "connect", error |-> "none"],
     [stage |-> "insert_user", error |-> "db"],
     [stage |-> "normalize", error |-> "other"],
     [stage |-> "insert_profile", error |-> "integrity"],
     [stage |-> "insert_profile", error |-> "db"],
     [stage |-> "insert_collection", error |-> "integrity"],
     [stage |-> "update_user", error |-> "db"],
     [stage |-> "commit", error |-> "db"]}

Tables == [users |-> users, profiles |-> profiles, collections |-> collections]

\* INSERT INTO users (id, username, password_hash, ...)
InsertUser(db, uid, name) ==
    [db EXCEPT !.users =
        @ \cup {[id |-> uid, username |-> name, main_profile_id |-> NULL]}]

\* INSERT INTO profiles (user_id, ...) RETURNING id
InsertProfile(db, pid, uid) ==
    [db EXCEPT !.profiles = @ \cup {[id |-> pid, user_id |-> uid]}]

\* INSERT INTO collections (profile_id, ...)
InsertCollection(db, cid, pid) ==
    [db EXCEPT !.collections = @ \cup {[id |-> cid, profile_id |-> pid]}]

\* UPDATE users SET main_profile_id = ... WHERE id = ...
SetMainProfile(db, uid, pid) ==
    [db EXCEPT !.users =
        {IF u.id = uid THEN [u EXCEPT !.main_profile_id = pid] ELSE u : u \in @}]

\* the number of statements that have run when the call fails at `stage`
Executed(stage) ==
    CASE stage \in {"connect", "validate", "insert_user"} -> 0
      [] stage \in {"normalize", "insert_profile"} -> 1
      [] stage = "insert_collection" -> 2
      [] stage = "update_user" -> 3
      [] OTHER -> 4

\* what the transaction sees after its first k statements
Working(db, k, uid, name, pid, cid) ==
    LET d1 == IF k >= 1 THEN InsertUser(db, uid, name) ELSE db
        d2 == IF k >= 2 THEN InsertProfile(d1, pid, uid) ELSE d1
        d3 == IF k >= 3 THEN InsertCollection(d2, cid, pid) ELSE d2
    IN  IF k >= 4 THEN SetMainProfile(d3, uid, pid) ELSE d3

\* conn.rollback(): the committed tables are what is left
RollbackNothing(db, working) == working

Rollback(db, working) == db

\* the fault the call meets first: no connection, an empty username or
\* password, a username that exists (users_username_key), or the given one
Meets(fault, name, password) ==
    IF fault.stage = "connect" THEN fault
    ELSE IF name = <<>> \/ password = <<>>
    THEN [stage |-> "validate", error |-> "none"]
    ELSE IF \E u \in users : u.username = name
    THEN [stage |-> "insert_user", error |-> "unique"]
    ELSE fault

\* the (success, message) pair returned
Result(fault) ==
    CASE fault.stage = "none" -> [ok |-> TRUE, message |-> "success"]
      [] fault.stage = "connect" -> [ok |-> FALSE, message |-> "connect_failed"]
      [] fault.stage = "validate" -> [ok |-> FALSE, message |-> "required"]
      [] fault.error = "unique" -> [ok |-> FALSE, message |-> "id_in_use"]
      [] fault.error = "integrity" -> [ok |-> FALSE, message |-> "integrity"]
      [] fault.error = "db" -> [ok |-> FALSE, message |-> "db_error"]
      [] OTHER -> [ok |-> FALSE, message |-> "unexpected"]

\* the connection is closed by the "finally" of the try statement, which
\* the return of the validation comes before
ClosedOnEveryPath(stage) == stage # "connect"

Closed(stage) == stage \notin {"connect", "validate"}

\* get_db_connection() returned a connection
Opened(stage) == stage # "connect"

create_user_and_profile_body(username, password, gender, fault) ==
    /\ signups < MaxSignups
    /\ signups' = signups + 1
    /\ cu_entry' = Tables
    /\ cu_username' = Strip(username)
    /\ LET met == Meets(fault, Strip(username), Strip(password))
           k == Executed(met.stage)
           working == Working(Tables, k, user_seq + 1, Strip(username),
                              profile_seq + 1, collection_seq + 1)
           final == IF met.stage = "none"
                    THEN working
                    ELSE Rollback(Tables, working)
       IN  /\ users' = final.users
           /\ profiles' = final.profiles
           /\ collections' = final.collections
           /\ user_seq' = IF met.stage \in {"connect", "validate"}
                          THEN user_seq ELSE user_seq + 1
           /\ profile_seq' = IF k >= 2 THEN profile_seq + 1 ELSE profile_seq
           /\ collection_seq' =
                 IF k >= 3 THEN collection_seq + 1 ELSE collection_seq
           /\ cu_fault' = met.stage
           /\ cu_result' = Result(met)
           /\ IF k >= 1 /\ met.stage # "normalize"
              THEN ns_gender' = gender /\ ns_result' = NormalizeSex(gender)
              ELSE UNCHANGED normalizer_vars
           /\ open_conns' = (IF Opened(met.stage) THEN open_conns + 1 ELSE open_conns)
                             - (IF Closed(met.stage) THEN 1 ELSE 0)
           /\ ur_op' = "create_user_and_profile"
           /\ ur_path' = met.stage
           /\ UNCHANGED ur_calls

\* a call whose user_data has no "gender" key
create_user_and_profile(username, password, fault) ==
    /\ create_user_and_profile_body(username, password, <<>>, fault)
    /\ UNCHANGED <<core_vars, assemble_vars, chatrepo_vars>>

\* a call with a gender
create_user_with_gender(username, password, gender, fault) ==
    /\ create_user_and_profile_body(username, password, gender, fault)
    /\ UNCHANGED <<core_vars, assemble_vars, chatrepo_vars>>

\* the faults of the operations that issue one statement or one transaction
RepoFaults == {"none", "connect", "error"}
UserIds == 1..MaxSignups

\* update_user_password(user_uuid, new_password_hash): the password column
\* is not part of the rows kept here
update_user_password(user_uuid, fault) ==
    /\ ur_calls < MaxRepoCalls
    /\ ur_calls' = ur_calls + 1
    /\ ur_op' = "update_user_password"
    /\ ur_path' = IF fault # "none" THEN fault
                  ELSE IF \A u \in users : u.id # user_uuid THEN "not_found"
                  ELSE "success"
    /\ open_conns' = (IF Opened(fault) THEN open_conns + 1 ELSE open_conns)
                      - (IF ClosedOnEveryPath(fault) THEN 1 ELSE 0)
    /\ UNCHANGED <<core_vars, user_vars, normalizer_vars, assemble_vars,
                   chatrepo_vars>>

\* delete_user_account(user_id): collections, profiles, users, commit
delete_user_account(user_id, fault) ==
    /\ ur_calls < MaxRepoCalls
    /\ ur_calls' = ur_calls + 1
    /\ ur_op' = "delete_user_account"
    /\ ur_path' = IF fault # "none" THEN fault ELSE "success"
    /\ open_conns' = (IF Opened(fault) THEN open_conns + 1 ELSE open_conns)
                      - (IF ClosedOnEveryPath(fault) THEN 1 ELSE 0)
    /\ IF fault = "none"
       THEN /\ collections' =
                  {c \in collections :
                      \A p \in profiles : p.id = c.profile_id => p.user_id # user_id}
            /\ profiles' = {p \in profiles : p.user_id # user_id}
            /\ users' = {u \in users : u.id # user_id}
       ELSE UNCHANGED <<users, profiles, collections>>
    /\ UNCHANGED <<user_seq, profile_seq, collection_seq, signups, cu_username,
                   cu_fault, cu_entry, cu_result>>
    /\ UNCHANGED <<core_vars, normalizer_vars, assemble_vars, chatrepo_vars>>

(***************************************************************************)
(* The policy grouper, dbgrouper.assign_policy_ids(title_field,            *)
(* similarity_threshold, batch_size, dry_run = False, reset_all_on_start,  *)
(* verbose), called by group_policies.  Greedy single pass: each ungrouped *)
(* document joins the group of its most similar candidate when the         *)
(* similarity reaches the threshold, and founds a group otherwise;         *)
(* assignments are persisted per batch.                                    *)
(***************************************************************************)
BatchSizes == 1..MaxBatch

\* cos(a, b) >= ThresholdNum / ThresholdDen
SimAtLeast(a, b) ==
    /\ Dot(a, b) > 0
    /\ ThresholdDen * ThresholdDen * Dot(a, b) * Dot(a, b)
          >= ThresholdNum * ThresholdNum * Norm2(a) * Norm2(b)

\* the title embedding of document id, NoVec when it has none
TitleEmbedding(id) ==
    IF \E e \in embeddings : e.doc_id = id /\ e.field = "title"
    THEN (CHOOSE e \in embeddings : e.doc_id = id /\ e.field = "title").embedding
    ELSE NoVec

\* reset_all_on_start: every policy_id back to NULL
ResetAll(docs) == {[d EXCEPT !.policy_id = NULL] : d \in docs}

ResetAppliesAlways(rst) == TRUE

ResetApplies(rst) == rst

\* one representative per existing group: its lowest-id member that has a
\* title embedding
Representatives(docs) ==
    {[id |-> d.id, policy_id |-> d.policy_id, embedding |-> TitleEmbedding(d.id)] :
        d \in {x \in docs :
                 /\ x.policy_id # NULL
                 /\ TitleEmbedding(x.id) # NoVec
                 /\ \A y \in docs :
                       (y.policy_id = x.policy_id /\ TitleEmbedding(y.id) # NoVec)
                           => x.id <= y.id}}

\* the documents a run loads: policy_id IS NULL
UngroupedOrNot(docs) == docs

Ungrouped(docs) == {d \in docs : d.policy_id = NULL}

\* the next batch: the first n ungrouped ids above the cursor, ascending
RECURSIVE Ascending(_, _)
Ascending(ids, n) ==
    IF n = 0 \/ ids = {}
    THEN <<>>
    ELSE LET m == CHOOSE x \in ids : \A y \in ids : x <= y
         IN  <<m>> \o Ascending(ids \ {m}, n - 1)

NextBatch(docs, after, n) ==
    Ascending({d.id : d \in {x \in Ungrouped(docs) : x.id > after}}, n)

\* the candidates of highest similarity to v
MostSimilar(cands, v) ==
    {c \in cands : \A o \in cands : CloserOrEqual(v, c.embedding, o.embedding)}

AnyAboveThreshold(cands, v) ==
    {c \in cands : SimAtLeast(v, c.embedding)}

\* the candidates a document of title embedding v may be merged with: the
\* most similar ones, when they reach the threshold
Match(cands, v) ==
    {c \in MostSimilar(cands, v) : SimAtLeast(v, c.embedding)}

\* the assignment a document without title embedding gets: none (skipped)
SkipAssignmentOwn(id) == {[id |-> id, policy_id |-> id]}

SkipAssignment(id) == {}

\* UPDATE documents SET policy_id for the given assignments
ApplyAssignments(docs, asg) ==
    {IF \E a \in asg : a.id = d.id
     THEN [d EXCEPT !.policy_id = (CHOOSE a \in asg : a.id = d.id).policy_id]
     ELSE d : d \in docs}

\* what the committed table holds after a document was processed: nothing
\* new before the batch commits
StoreAfterDocEager(docs, asg) == ApplyAssignments(docs, asg)

StoreAfterDoc(docs, asg) == docs

LogDoc(log, id) ==
    [log EXCEPT ![Len(log)].docs = @ \cup {id}]
LogSkip(log, id) ==
    [log EXCEPT ![Len(log)].skipped = @ \cup {id}]

assign_policy_ids_start_body(n, rst) ==
    /\ g_pc # "running"
    /\ up_pc # "loop"
    /\ g_pc' = "running"
    /\ batch_size' = n
    /\ reset_all_on_start' = rst
    /\ documents' = IF ResetApplies(rst) THEN ResetAll(documents) ELSE documents
    /\ run_index' = Representatives(documents')
    /\ cursor' = 0
    /\ batch' = <<>>
    /\ batch_open' = FALSE
    /\ pending' = {}
    /\ founded' = 0
    /\ merged' = 0
    /\ n_batches' = 0
    /\ start_docs' = documents'
    /\ batch_log' = <<>>
    /\ seen' = <<>>
    /\ after_done' = (g_pc = "done" /\ ~rst)
    /\ UNCHANGED <<embeddings, doc_seq>>

assign_policy_ids_start(n, rst) ==
    /\ assign_policy_ids_start_body(n, rst)
    /\ UNCHANGED <<upload_vars, app_vars, stmt_vars, search_vars>>

\* SELECT ... WHERE policy_id IS NULL ORDER BY id LIMIT batch_size
assign_policy_ids_load ==
    /\ g_pc = "running"
    /\ ~batch_open
    /\ NextBatch(documents, cursor, batch_size) # <<>>
    /\ batch' = NextBatch(documents, cursor, batch_size)
    /\ cursor' = batch'[Len(batch')]
    /\ batch_open' = TRUE
    /\ batch_log' = Append(batch_log, [docs |-> {}, skipped |-> {}])
    /\ UNCHANGED <<store_vars, upload_vars, app_vars, stmt_vars, search_vars, g_pc,
                   batch_size, reset_all_on_start, pending, run_index, founded,
                   merged, n_batches, start_docs, seen, after_done>>

\* one document of the open batch
assign_policy_ids_doc ==
    /\ g_pc = "running"
    /\ batch_open
    /\ batch # <<>>
    /\ LET id == Head(batch)
           v == TitleEmbedding(id)
       IN  /\ batch' = Tail(batch)
           /\ seen' = Append(seen, id)
           /\ IF v = NoVec
              THEN /\ pending' = pending \cup SkipAssignment(id)
                   /\ documents' = StoreAfterDoc(documents, pending')
                   /\ batch_log' = LogSkip(batch_log, id)
                   /\ UNCHANGED <<run_index, founded, merged>>
              ELSE IF Match(run_index, v) # {}
              THEN \E c \in Match(run_index, v) :
                       /\ pending' = pending \cup {[id |-> id, policy_id |-> c.policy_id]}
                       /\ documents' = StoreAfterDoc(documents, pending')
                       /\ run_index' = run_index \cup
                             {[id |-> id, policy_id |-> c.policy_id, embedding |-> v]}
                       /\ merged' = merged + 1
                       /\ batch_log' = LogDoc(batch_log, id)
                       /\ UNCHANGED founded
              ELSE /\ pending' = pending \cup {[id |-> id, policy_id |-> id]}
                   /\ documents' = StoreAfterDoc(documents, pending')
                   /\ run_index' = run_index \cup
                         {[id |-> id, policy_id |-> id, embedding |-> v]}
                   /\ founded' = founded + 1
                   /\ batch_log' = LogDoc(batch_log, id)
                   /\ UNCHANGED merged
    /\ UNCHANGED <<embeddings, doc_seq, upload_vars, app_vars, stmt_vars, search_vars, g_pc,
                   batch_size, reset_all_on_start, cursor, batch_open, n_batches,
                   start_docs, after_done>>

\* the batch's commit
assign_policy_ids_commit ==
    /\ g_pc = "running"
    /\ batch_open
    /\ batch = <<>>
    /\ documents' = ApplyAssignments(documents, pending)
    /\ pending' = {}
    /\ batch_open' = FALSE
    /\ n_batches' = n_batches + 1
    /\ UNCHANGED <<embeddings, doc_seq, upload_vars, app_vars, stmt_vars, search_vars, g_pc,
                   batch_size, reset_all_on_start, cursor, batch, run_index,
                   founded, merged, start_docs, batch_log, seen, after_done>>

\* the batch's commit fails: the batch is rolled back and the run stops
assign_policy_ids_commit_fails ==
    /\ g_pc = "running"
    /\ batch_open
    /\ batch = <<>>
    /\ pending' = {}
    /\ batch_open' = FALSE
    /\ g_pc' = "failed"
    /\ UNCHANGED <<store_vars, upload_vars, app_vars, stmt_vars, search_vars, batch_size,
                   reset_all_on_start, cursor, batch, run_index, founded, merged,
                   n_batches, start_docs, batch_log, seen, after_done>>

\* the process dies in a batch: the open transaction is lost
assign_policy_ids_crash ==
    /\ g_pc = "running"
    /\ batch_open
    /\ pending' = {}
    /\ batch_open' = FALSE
    /\ g_pc' = "crashed"
    /\ UNCHANGED <<store_vars, upload_vars, app_vars, stmt_vars, search_vars, batch_size,
                   reset_all_on_start, cursor, batch, run_index, founded, merged,
                   n_batches, start_docs, batch_log, seen, after_done>>

\* no ungrouped document is left above the cursor: the run returns its summary
assign_policy_ids_finish ==
    /\ g_pc = "running"
    /\ ~batch_open
    /\ NextBatch(documents, cursor, batch_size) = <<>>
    /\ g_pc' = "done"
    /\ UNCHANGED <<store_vars, upload_vars, app_vars, stmt_vars, search_vars, batch_size,
                   reset_all_on_start, cursor, batch, batch_open, pending,
                   run_index, founded, merged, n_batches, start_docs,
                   batch_log, seen, after_done>>

\* records uploaded before and between grouping runs
GroupRecords ==
    {r \in Records :
        /\ r.benefits = NoVec
        /\ r.title = NoVec <=> r.requirements # NoVec}

\* a whole upload_records call between two runs; the locals of the run that
\* has returned are gone
upload_between_runs(rec) ==
    /\ g_pc # "running"
    /\ upload_records_one(rec)
    /\ g_pc' = "idle"
    /\ cursor' = 0
    /\ batch' = <<>>
    /\ batch_open' = FALSE
    /\ pending' = {}
    /\ run_index' = {}
    /\ founded' = 0
    /\ merged' = 0
    /\ n_batches' = 0
    /\ start_docs' = {}
    /\ batch_log' = <<>>
    /\ seen' = <<>>
    /\ after_done' = FALSE
    /\ batch_size' = BatchSizeDefault
    /\ reset_all_on_start' = FALSE
    /\ UNCHANGED <<upload_vars, app_vars, stmt_vars, search_vars>>

(***************************************************************************)
(* dbsetup_pipeline.main: collect, upload, group.  "except Exception"      *)
(* around the three steps ends the process with sys.exit(1); a return from *)
(* main ends it with exit code 0.                                          *)
(***************************************************************************)
\* the operations main calls
PipelineSteps == <<"collect", "upload", "group">>

\* records the crawlers collect
PipelineRecords == GroupRecords

\* p.parse_args(): --reset, --group, --batch-size
main_parse_args(rst, grp, n) ==
    /\ pm_pc = "off"
    /\ pm_pc' = "collect"
    /\ pm_reset' = rst
    /\ pm_group' = grp
    /\ pm_batch_size' = n
    /\ UNCHANGED <<mem_data, pm_exit, pm_error, pm_trace>>
    /\ UNCHANGED <<store_vars, upload_vars, stmt_vars, search_vars, group_vars,
                   agent_vars, user_vars,
                   not_pipeline_vars>>

\* the collectors return n records in all; "if not mem_data: return"
main_collect(n) ==
    /\ pm_pc = "collect"
    /\ mem_data' = n
    /\ pm_trace' = Append(pm_trace, "collect")
    /\ IF n = 0
       THEN pm_pc' = "exited" /\ pm_exit' = ExitOk
       ELSE pm_pc' = "upload" /\ UNCHANGED pm_exit
    /\ UNCHANGED <<pm_reset, pm_group, pm_batch_size, pm_error>>
    /\ UNCHANGED <<store_vars, upload_vars, stmt_vars, search_vars, group_vars,
                   agent_vars, user_vars,
                   not_pipeline_vars>>

\* a collector raises: except -> sys.exit(1)
main_collect_raises ==
    /\ pm_pc = "collect"
    /\ pm_trace' = Append(pm_trace, "collect")
    /\ pm_error' = TRUE
    /\ pm_pc' = "exited"
    /\ pm_exit' = ExitError
    /\ UNCHANGED <<pm_reset, pm_group, pm_batch_size, mem_data>>
    /\ UNCHANGED <<store_vars, upload_vars, stmt_vars, search_vars, group_vars,
                   agent_vars, user_vars,
                   not_pipeline_vars>>

\* upload_records(mem_data, reset=args.reset): the call up to the loop
main_upload_call ==
    /\ pm_pc = "upload"
    /\ upload_records_call_body(mem_data, pm_reset, CommitEveryDefault)
    /\ pm_pc' = "uploading"
    /\ pm_trace' = Append(pm_trace, "upload")
    /\ UNCHANGED <<pm_reset, pm_group, pm_batch_size, mem_data, pm_exit, pm_error>>
    /\ UNCHANGED <<stmt_vars, search_vars, group_vars, agent_vars, user_vars,
                   not_pipeline_vars>>

\* "if args.group:"
GroupRequestedAlways(grp) == TRUE

GroupRequested(grp) == grp

\* upload_records has returned: "if args.group", else the end of main
main_upload_returned ==
    /\ pm_pc = "uploading"
    /\ up_pc = "returned"
    /\ IF GroupRequested(pm_group)
       THEN pm_pc' = "group" /\ UNCHANGED pm_exit
       ELSE pm_pc' = "exited" /\ pm_exit' = ExitOk
    /\ UNCHANGED <<pm_reset, pm_group, pm_batch_size, mem_data, pm_error, pm_trace>>
    /\ UNCHANGED <<store_vars, upload_vars, stmt_vars, search_vars, group_vars,
                   agent_vars, user_vars,
                   not_pipeline_vars>>

\* upload_records has raised: except -> sys.exit(1)
main_upload_raised ==
    /\ pm_pc = "uploading"
    /\ up_pc = "raised"
    /\ pm_error' = TRUE
    /\ pm_pc' = "exited"
    /\ pm_exit' = ExitError
    /\ UNCHANGED <<pm_reset, pm_group, pm_batch_size, mem_data, pm_trace>>
    /\ UNCHANGED <<store_vars, upload_vars, stmt_vars, search_vars, group_vars,
                   agent_vars, user_vars,
                   not_pipeline_vars>>

\* group_policies(args.threshold, args.batch_size): reset_all is False
main_group_call ==
    /\ pm_pc = "group"
    /\ assign_policy_ids_start_body(pm_batch_size, FALSE)
    /\ pm_pc' = "grouping"
    /\ pm_trace' = Append(pm_trace, "group")
    /\ UNCHANGED <<pm_reset, pm_group, pm_batch_size, mem_data, pm_exit, pm_error>>
    /\ UNCHANGED <<upload_vars, stmt_vars, search_vars, agent_vars, user_vars,
                   not_pipeline_vars>>

\* the grouper has returned its summary: the end of main
main_group_returned ==
    /\ pm_pc = "grouping"
    /\ g_pc = "done"
    /\ pm_pc' = "exited"
    /\ pm_exit' = ExitOk
    /\ UNCHANGED <<pm_reset, pm_group, pm_batch_size, mem_data, pm_error, pm_trace>>
    /\ UNCHANGED <<store_vars, upload_vars, stmt_vars, search_vars, group_vars,
                   agent_vars, user_vars,
                   not_pipeline_vars>>

\* the grouper's batch commit failed and its error reaches main:
\* except -> sys.exit(1)
main_group_raised ==
    /\ pm_pc = "grouping"
    /\ g_pc = "failed"
    /\ pm_error' = TRUE
    /\ pm_pc' = "exited"
    /\ pm_exit' = ExitError
    /\ UNCHANGED <<pm_reset, pm_group, pm_batch_size, mem_data, pm_trace>>
    /\ UNCHANGED <<store_vars, upload_vars, stmt_vars, search_vars, group_vars,
                   agent_vars, user_vars,
                   not_pipeline_vars>>

InitStore ==
    /\ documents = {}
    /\ embeddings = {}
    /\ doc_seq = 0

InitUpload ==
    /\ up_pc = "idle"
    /\ connected = FALSE
    /\ total = 0
    /\ inserted = 0
    /\ commit_every = CommitEveryDefault
    /\ reset = "none"
    /\ tx_documents = {}
    /\ tx_embeddings = {}
    /\ calls = 0
    /\ entry_documents = {}
    /\ entry_embeddings = {}
    /\ entry_seq = 0
    /\ up_log = <<>>
    /\ fail_k = 0
    /\ fail_stage = "none"

InitStmt ==
    /\ stmt_rows = {}
    /\ stmt_out = "none"

InitSearch ==
    /\ query_embedding = NoVec
    /\ rows = <<>>
    /\ search_out = "none"
    /\ fetched = FALSE

InitGroup ==
    /\ g_pc = "idle"
    /\ batch_size = BatchSizeDefault
    /\ reset_all_on_start = FALSE
    /\ cursor = 0
    /\ batch = <<>>
    /\ batch_open = FALSE
    /\ pending = {}
    /\ run_index = {}
    /\ founded = 0
    /\ merged = 0
    /\ n_batches = 0
    /\ start_docs = {}
    /\ batch_log = <<>>
    /\ seen = <<>>
    /\ after_done = FALSE

InitAgent ==
    /\ loop_pc = "off"
    /\ raw_input = <<>>
    /\ user_input = <<>>
    /\ route = "none"
    /\ chat_history = <<>>
    /\ full_response = <<>>
    /\ ex_pc = "none"
    /\ iterations = 0
    /\ events = <<>>
    /\ n_chunks = 0
    /\ turns = 0
    /\ produced = <<>>
    /\ cleared = 0

InitUser ==
    /\ users = {}
    /\ profiles = {}
    /\ collections = {}
    /\ user_seq = 0
    /\ profile_seq = 0
    /\ collection_seq = 0
    /\ signups = 0
    /\ cu_username = <<>>
    /\ cu_fault = "none"
    /\ cu_entry = [users |-> {}, profiles |-> {}, collections |-> {}]
    /\ cu_result = [ok |-> FALSE, message |-> "none"]

InitPipeline ==
    /\ pm_pc = "off"
    /\ pm_reset = "none"
    /\ pm_group = FALSE
    /\ pm_batch_size = BatchSizeDefault
    /\ mem_data = 0
    /\ pm_exit = ExitOk
    /\ pm_error = FALSE
    /\ pm_trace = <<>>

InitBot ==
    /\ doc_region = {}
    /\ bot_pc = "none"
    /\ bot_region = NoRegion
    /\ structured_data = {}
    /\ vector_store = FALSE
    /\ agent_executor = FALSE
    /\ bot_call = [method |-> "none", fault |-> "none",
                   raised |-> FALSE]
    /\ vs_found = FALSE
    /\ cm_pc = "off"
    /\ cm_region = NoRegion
    /\ cm_limit = NoLimit
    /\ cm_exit = ExitOk
    /\ cm_error = FALSE

InitNormalizer ==
    /\ ns_gender = <<>>
    /\ ns_result = "not_called"

InitAssemble ==
    /\ as_state = [turn_count |-> NoTurnCount, rolling_summary |-> NoSummary]
    /\ as_out = "not_called"
    /\ as_result = [rolling_summary |-> NoSummary, messages |-> <<>>]
    /\ as_summarized = FALSE

InitChatRepo ==
    /\ conversations = {}
    /\ chat_messages = {}
    /\ conv_seq = 0
    /\ sv_messages = <<>>
    /\ sv_log = <<>>
    /\ sv_result = [kind |-> "not_called", id |-> 0]
    /\ sv_calls = 0

InitConn ==
    /\ open_conns = 0
    /\ ur_op = "none"
    /\ ur_path = "none"
    /\ ur_calls = 0

Init ==
    /\ InitStore
    /\ InitUpload
    /\ InitStmt
    /\ InitSearch
    /\ InitGroup
    /\ InitAgent
    /\ InitUser
    /\ InitPipeline
    /\ InitBot
    /\ InitNormalizer
    /\ InitAssemble
    /\ InitChatRepo
    /\ InitConn

NextUpload ==
    \/ \E n \in 0..MaxRecords, rst \in ResetValues, every \in CommitEveryValues :
          upload_records_call(n, rst, every)
    \/ \E rec \in UploadRecords : upload_records_iter(rec)
    \/ \E rec \in UploadRecords, stage \in FailStages :
          upload_records_fail(rec, stage)
    \/ upload_records_finish
    \/ upload_records_finish_fails

SpecUpload == Init /\ [][NextUpload]_vars

\* records with an embedding for every field
IntegrityRecords ==
    {r \in UploadRecords :
        r.title # NoVec /\ r.requirements # NoVec /\ r.benefits # NoVec}

\* upload_records calls, and deletions of documents between them
NextIntegrity ==
    \/ \E n \in 0..MaxRecords, rst \in ResetValues, every \in CommitEveryValues :
          upload_records_call(n, rst, every)
    \/ \E rec \in IntegrityRecords : upload_records_iter(rec)
    \/ \E rec \in IntegrityRecords, stage \in FailStages :
          upload_records_fail(rec, stage)
    \/ upload_records_finish
    \/ upload_records_finish_fails
    \/ \E id \in 1..MaxSeq : delete_document(id)

SpecIntegrity == Init /\ [][NextIntegrity]_vars

NextStore ==
    \/ insert_document
    \/ \E id \in 1..MaxStmtDocs, f \in Fields, vec \in StmtVecs :
          insert_embeddings(id, f, vec)
    \/ truncate_tables

SpecStore == Init /\ [][NextStore]_vars

\* uploads, then one call of the tool on the store they leave
NextSearch ==
    \/ \E rec \in SearchRecords :
          /\ search_out = "none"
          /\ upload_records_one(rec)
          /\ UNCHANGED <<upload_vars, app_vars, stmt_vars, search_vars, group_vars>>
    \/ \E q \in Queries : search_out = "none" /\ search_with_score(q)
    \/ \E q \in Queries : search_out = "none" /\ search_with_score_error(q)

SpecSearch == Init /\ [][NextSearch]_vars

NextGroup ==
    \/ \E rec \in GroupRecords : upload_between_runs(rec)
    \/ \E n \in BatchSizes, rst \in BOOLEAN : assign_policy_ids_start(n, rst)
    \/ assign_policy_ids_load
    \/ assign_policy_ids_doc
    \/ assign_policy_ids_commit
    \/ assign_policy_ids_commit_fails
    \/ assign_policy_ids_crash
    \/ assign_policy_ids_finish

SpecGroup == Init /\ [][NextGroup]_vars

\* records uploaded before and between the runs a search is interleaved with
ConcurrentRecords ==
    {r \in Records :
        /\ r.requirements = NoVec
        /\ r.benefits = NoVec
        /\ r.title \in {<<1, 0>>, <<2, 1>>}}

\* uploads and grouper runs, and one call of the tool at any point of them:
\* the tool's connection reads the committed tables
NextConcurrent ==
    \/ \E rec \in ConcurrentRecords :
          /\ search_out = "none"
          /\ doc_seq < MaxConcurrentDocs
          /\ upload_between_runs(rec)
    \/ \E n \in BatchSizes, rst \in BOOLEAN :
          search_out = "none" /\ assign_policy_ids_start(n, rst)
    \/ search_out = "none" /\ assign_policy_ids_load
    \/ search_out = "none" /\ assign_policy_ids_doc
    \/ search_out = "none" /\ assign_policy_ids_commit
    \/ search_out = "none" /\ assign_policy_ids_finish
    \/ \E q \in Queries : search_out = "none" /\ search_with_score(q)

SpecConcurrent == Init /\ [][NextConcurrent]_vars

\* upload_records calls on a store the grouper has worked on: grouper runs
\* between the calls
NextRegroup ==
    \/ \E n \in 0..MaxRegroupRecords, rst \in ResetValues :
          g_pc # "running" /\ upload_records_call(n, rst, CommitEveryDefault)
    \/ \E rec \in ConcurrentRecords : upload_records_iter(rec)
    \/ \E rec \in ConcurrentRecords, stage \in FailStages :
          upload_records_fail(rec, stage)
    \/ upload_records_finish
    \/ assign_policy_ids_start(BatchSizeDefault, FALSE)
    \/ assign_policy_ids_load
    \/ assign_policy_ids_doc
    \/ assign_policy_ids_commit
    \/ assign_policy_ids_finish

SpecRegroup == Init /\ [][NextRegroup]_vars

\* the n-th record uploaded before the tool ranks the rows: one with three
\* embeddings in one region or one with its title embedding in the other,
\* each embedding in a direction of its own
RankUploads(n) ==
    {[rec |-> [title |-> <<n, 1>>, requirements |-> <<-1, n + 1>>,
               benefits |-> <<-(n + 1), 1>>],
      region |-> "gangnam"],
     [rec |-> [title |-> <<n, 1>>, requirements |-> NoVec, benefits |-> NoVec],
      region |-> "seocho"]}
RankQueries == {<<0, 1>>, <<1, 0>>}

\* uploads, then a chatbot with a region, initialized, and one call of its tool
NextRank ==
    \/ \E u \in RankUploads(doc_seq + 1) :
          /\ bot_pc = "none"
          /\ doc_seq < MaxRankDocs
          /\ upload_region(u.rec, u.region)
    \/ \E region \in Regions \cup {NoRegion} : new_chatbot(region)
    \/ ~agent_executor /\ initialize_call(bot_region, NoLimit, "none")
    \/ \E q \in RankQueries :
          agent_executor /\ search_out = "none" /\ search_with_score(q)

SpecRank == Init /\ [][NextRank]_vars

\* the steps of a turn in progress
TurnStep ==
    \/ \E chunk \in AnswerChunks : agent_stream_chunk(chunk)
    \/ \E q \in AgentQueries : agent_tool_round(q)
    \/ \E q \in AgentQueries : agent_tool_round_error(q)
    \/ agent_finish
    \/ agent_stopped
    \/ agent_raises
    \/ consume_event
    \/ end_turn
    \/ turn_fails

\* uploads, then the chatbot and one conversation
NextAgent ==
    \/ \E rec \in AgentRecords :
          /\ loop_pc = "off"
          /\ doc_seq < MaxAgentDocs
          /\ upload_records_one(rec)
          /\ UNCHANGED <<upload_vars, stmt_vars, search_vars, group_vars,
                         app_vars>>
    \/ initialize
    \/ \E line \in Lines : read_exit(line)
    \/ \E line \in Lines : read_reset(line)
    \/ \E line \in Lines : read_empty(line)
    \/ \E line \in Lines : read_question(line)
    \/ \E chunk \in AnswerChunks : agent_stream_chunk(chunk)
    \/ \E q \in AgentQueries : agent_tool_round(q)
    \/ \E q \in AgentQueries : agent_tool_round_error(q)
    \/ agent_finish
    \/ agent_stopped
    \/ agent_raises
    \/ consume_event
    \/ end_turn
    \/ turn_fails

SpecAgent == Init /\ [][NextAgent]_vars

\* a call of the model returns or raises, and the loop handles the events
\* and the end of the stream it is waiting for
SpecAgentLive == SpecAgent /\ WF_vars(TurnStep)

NextUser ==
    \E username \in Usernames, password \in Passwords, fault \in Faults :
        create_user_and_profile(username, password, fault)

SpecUser == Init /\ [][NextUser]_vars

\* one run of the pipeline's main
NextPipeline ==
    \/ \E rst \in ResetValues, grp \in BOOLEAN,
          n \in BatchSizes \cup {BatchSizeDefault} :
          main_parse_args(rst, grp, n)
    \/ \E n \in 0..MaxCollected : main_collect(n)
    \/ main_collect_raises
    \/ main_upload_call
    \/ \E rec \in PipelineRecords : pm_pc = "uploading" /\ upload_records_iter(rec)
    \/ \E rec \in PipelineRecords, stage \in FailStages :
          pm_pc = "uploading" /\ upload_records_fail(rec, stage)
    \/ pm_pc = "uploading" /\ upload_records_finish
    \/ pm_pc = "uploading" /\ upload_records_finish_fails
    \/ main_upload_returned
    \/ main_upload_raised
    \/ main_group_call
    \/ pm_pc = "grouping" /\ assign_policy_ids_load
    \/ pm_pc = "grouping" /\ assign_policy_ids_doc
    \/ pm_pc = "grouping" /\ assign_policy_ids_commit
    \/ pm_pc = "grouping" /\ assign_policy_ids_commit_fails
    \/ pm_pc = "grouping" /\ assign_policy_ids_finish
    \/ main_group_returned
    \/ main_group_raised

SpecPipeline == Init /\ [][NextPipeline]_vars

\* records uploaded before a chatbot is made: a document with a title
\* embedding, and a document with no embedding
BotRecords ==
    {r \in Records :
        /\ r.requirements = NoVec
        /\ r.benefits = NoVec
        /\ r.title \in {<<1, 0>>, NoVec}}

\* uploads, then one chatbot whose methods are called in any order
NextBot ==
    \/ \E rec \in BotRecords, region \in Regions :
          /\ bot_pc = "none"
          /\ doc_seq < MaxBotDocs
          /\ upload_region(rec, region)
    \/ \E region \in Regions \cup {NoRegion} : new_chatbot(region)
    \/ \E region \in Regions \cup {NoRegion}, limit \in Limits,
          fault \in {"none", "load_data"} :
          load_data(region, limit, fault)
    \/ \E fault \in {"none", "unreadable"} : load_vector_store(fault)
    \/ \E fault \in {"none", "setup"} : setup_agent(fault)
    \/ \E region \in Regions \cup {NoRegion}, limit \in Limits,
          fault \in BotFaults :
          initialize_call(region, limit, fault)
    \/ run_conversation
    \/ \E line \in Lines : read_exit(line)

SpecBot == Init /\ [][NextBot]_vars

\* the steps of healthcare_chatbot.main and of the conversation it runs
NextChatbotMain ==
    \/ \E region \in Regions \cup {NoRegion}, limit \in Limits :
          chatbot_main_start(region, limit)
    \/ \E fault \in BotFaults : chatbot_main_initialize(fault)
    \/ chatbot_main_run
    \/ \E line \in Lines : cm_pc = "conversation" /\ read_exit(line)
    \/ \E line \in Lines : cm_pc = "conversation" /\ read_reset(line)
    \/ \E line \in Lines : cm_pc = "conversation" /\ read_empty(line)
    \/ cm_pc = "conversation" /\ read_eof
    \/ chatbot_main_returned
    \/ chatbot_main_raised

\* uploads, then one run of one of the two command-line programs
NextCli ==
    \/ \E rec \in BotRecords, region \in Regions :
          /\ pm_pc = "off"
          /\ cm_pc = "off"
          /\ doc_seq < MaxAgentDocs
          /\ upload_region(rec, region)
    \/ cm_pc = "off" /\ NextPipeline
    \/ NextChatbotMain

SpecCli == Init /\ [][NextCli]_vars

(***************************************************************************)
(* assemble(state), the context assembler node                             *)
(***************************************************************************)
\* the values of state.get("turn_count"): the key is missing, or an integer
TurnCounts ==
    {NoTurnCount} \cup {[given |-> TRUE, value |-> v] : v \in 0..MaxTurnCount}

\* what the model answers to the summary prompt, or the call raising
LlmOutputs == {"s1", "s2"}
LlmResults == LlmOutputs \cup {"raise"}

TurnCountRaw(tc) == IF tc.given THEN tc.value ELSE 1

\* int(state.get("turn_count") or 1)
TurnCountOf(tc) == IF tc.given /\ tc.value # 0 THEN tc.value ELSE 1

ShouldUpdate(turn_count) == turn_count % SummaryEvery = 0

\* the tool message; its context block keeps the summary only
Assembled(new_summary, should_update, turn_count) ==
    [role |-> "tool", summary |-> new_summary,
     summary_updated |-> should_update, turn_count |-> turn_count]

\* the state holds the rolling_summary the last returned call left in it
assemble(tc, llm) ==
    LET previous_summary ==
            IF as_out = "returned" THEN as_result.rolling_summary
            ELSE as_state.rolling_summary
        turn_count == TurnCountOf(tc)
        should_update == ShouldUpdate(turn_count)
        new_summary == IF should_update THEN llm ELSE previous_summary
    IN /\ as_state' = [turn_count |-> tc, rolling_summary |-> previous_summary]
       /\ as_summarized' = should_update
       /\ IF should_update /\ llm = "raise"
          THEN /\ as_out' = "raised"
               /\ UNCHANGED as_result
          ELSE /\ as_out' = "returned"
               /\ as_result' =
                     [rolling_summary |-> new_summary,
                      messages |->
                         <<Assembled(new_summary, should_update, turn_count)>>]
       /\ UNCHANGED <<core_vars, user_vars, normalizer_vars, chatrepo_vars,
                      conn_vars>>

(***************************************************************************)
(* save_full_conversation(cursor, profile_id, messages)                    *)
(***************************************************************************)
\* the messages the front end sends: role and content
SaveMessage ==
    {[role |-> "human", content |-> "q"], [role |-> "assistant", content |-> "a"]}

RECURSIVE SeqsUpTo(_, _)
SeqsUpTo(S, n) ==
    IF n = 0 THEN {<<>>}
    ELSE LET shorter == SeqsUpTo(S, n - 1)
         IN shorter \cup {Append(q, x) : q \in {t \in shorter : Len(t) = n - 1}, x \in S}

MessageLists == SeqsUpTo(SaveMessage, MaxMessages)
ProfileIds == {1}

TurnIndexFromOne(i) == i

\* enumerate(messages) counts from 0; i is the position in the sequence
TurnIndex(i) == i - 1

MessageRecords(conversation_id, messages) ==
    [i \in 1..Len(messages) |->
        [conversation_id |-> conversation_id, turn_index |-> TurnIndex(i),
         role |-> messages[i].role, content |-> messages[i].content]]

\* the statements of a call, in order: the conversation, then the messages
Statements(conversation_id, profile_id, messages) ==
    <<[table |-> "conversations",
       row |-> [id |-> conversation_id, profile_id |-> profile_id,
                initial_prompt |-> messages[1].content]]>>
    \o [i \in 1..Len(messages) |->
          [table |-> "messages",
           row |-> MessageRecords(conversation_id, messages)[i]]]

RowsOf(statements, table) ==
    {statements[i].row : i \in {j \in 1..Len(statements) : statements[j].table = table}}

\* fail_at = 0: no statement fails; fail_at = k: the k-th cursor.execute
\* raises.  The rows are the caller's transaction: nothing is rolled back here.
save_full_conversation(profile_id, messages, fail_at) ==
    /\ sv_calls < MaxSaves
    /\ sv_calls' = sv_calls + 1
    /\ sv_messages' = messages
    /\ IF messages = <<>>
       THEN /\ sv_result' = [kind |-> "no_messages_to_save", id |-> 0]
            /\ sv_log' = <<>>
            /\ UNCHANGED <<conversations, chat_messages, conv_seq>>
       ELSE LET conversation_id == conv_seq + 1
                statements == Statements(conversation_id, profile_id, messages)
                failed == fail_at \in 1..Len(statements)
                done == IF failed THEN SubSeq(statements, 1, fail_at - 1)
                        ELSE statements
            IN /\ conv_seq' = conversation_id
               /\ conversations' = conversations \cup RowsOf(done, "conversations")
               /\ chat_messages' = chat_messages \cup RowsOf(done, "messages")
               /\ sv_log' =
                     [i \in 1..(IF failed THEN fail_at ELSE Len(statements)) |->
                         [table |-> statements[i].table, row |-> statements[i].row,
                          ok |-> ~(failed /\ i = fail_at)]]
               /\ sv_result' =
                     IF failed THEN [kind |-> "ConversationSaveError", id |-> 0]
                     ELSE [kind |-> "conversation_id", id |-> conversation_id]
    /\ UNCHANGED <<core_vars, user_vars, normalizer_vars, assemble_vars, conn_vars>>

\* sign-ups with a gender, and calls of the normalizer on its own
GenderUsernames == {<<"k">>, <<"l">>}
GenderFaults == {f \in Faults : f.stage \in {"none", "normalize"}}

NextGender ==
    \/ \E username \in GenderUsernames, gender \in Genders, fault \in GenderFaults :
          create_user_with_gender(username, <<"p">>, gender, fault)
    \/ \E gender \in Genders : normalize_sex(gender)

SpecGender == Init /\ [][NextGender]_vars

\* the operations of the user repository
NextRepo ==
    \/ \E username \in Usernames, password \in Passwords, fault \in Faults :
          create_user_and_profile(username, password, fault)
    \/ \E id \in UserIds, fault \in RepoFaults : update_user_password(id, fault)
    \/ \E id \in UserIds, fault \in RepoFaults : delete_user_account(id, fault)

SpecRepo == Init /\ [][NextRepo]_vars

\* conversations saved from the front end
NextSave ==
    \E profile_id \in ProfileIds, messages \in MessageLists,
       fail_at \in 0..(MaxMessages + 1) :
       save_full_conversation(profile_id, messages, fail_at)

SpecSave == Init /\ [][NextSave]_vars

\* turns of the conversation graph that reach the context assembler
NextAssemble == \E tc \in TurnCounts, llm \in LlmResults : assemble(tc, llm)

SpecAssemble == Init /\ [][NextAssemble]_vars

(***************************************************************************)
(* Properties of upload_records                                            *)
(***************************************************************************)
\* the rows of the first n processed records of the current call
LoggedDocs(n) == {up_log[i].doc : i \in 1..n}
LoggedEmbs(n) == UNION {up_log[i].embs : i \in 1..n}

\* C6: when processing record number fail_k fails, the call raises and the
\* store holds, of this call, exactly the documents and embeddings of its
\* first floor((fail_k - 1) / commit_every) * commit_every records (on top of
\* what the store held when the loop started).
C6_RollbackKeepsCommittedBatches ==
    fail_k # 0 =>
        /\ up_pc = "raised"
        /\ LET keep == Durable(fail_k - 1, commit_every)
               base_docs == IF reset # "none" THEN {} ELSE entry_documents
               base_embs == IF reset # "none" THEN {} ELSE entry_embeddings
           IN  /\ documents = base_docs \cup LoggedDocs(keep)
               /\ embeddings = base_embs \cup LoggedEmbs(keep)
               /\ Cardinality(LoggedDocs(keep)) = keep
               /\ LoggedDocs(keep) \cap base_docs = {}

C6_Witness ==
    /\ up_pc = "raised"
    /\ fail_k = 3
    /\ commit_every = 2
    /\ up_log[2].doc \in documents
    /\ up_log[2].embs # {}
    /\ entry_documents # {}

\* C7: a call with an empty record list returns without connecting and
\* leaves the store as it was on entry, whatever reset is.
C7_EmptyUploadNoWrite ==
    (up_pc = "returned" /\ total = 0) =>
        /\ ~connected
        /\ documents = entry_documents
        /\ embeddings = entry_embeddings
        /\ doc_seq = entry_seq

C7_Witness ==
    /\ up_pc = "returned"
    /\ total = 0
    /\ reset = "truncate"
    /\ documents # {}
    /\ embeddings # {}

\* C18: every record the loop has processed has its document row and one
\* embedding row for each field whose vector is not empty, and no more; and
\* a failure of the embedding service for a field does not end the call:
\* the record it struck is processed like the others.
C18_EmbeddingFailureSkipsField ==
    /\ \A i \in 1..Len(up_log) :
          up_log[i].embs =
              {[doc_id |-> up_log[i].doc.id, field |-> f,
                embedding |-> up_log[i].rec[f]] :
                  f \in {g \in Fields : up_log[i].rec[g] # NoVec}}
    /\ fail_stage = EmbeddingError =>
          (up_pc # "raised" /\ Len(up_log) >= fail_k)

\* C19: every committed embeddings row refers to a committed document, every
\* embeddings row of the open transaction to a document of that transaction,
\* and the embeddings a record inserted all carry the id of the document row
\* inserted for it.
C19_EmbeddingHasDocument ==
    /\ \A e \in embeddings : \E d \in documents : d.id = e.doc_id
    /\ \A e \in tx_embeddings : \E d \in tx_documents : d.id = e.doc_id
    /\ \A i \in 1..Len(up_log) : \A e \in up_log[i].embs :
          e.doc_id = up_log[i].doc.id

C19_Witness ==
    /\ up_pc = "returned"
    /\ reset = "truncate"
    /\ embeddings # {}
    /\ \E i \in 1..Len(up_log) :
          /\ up_log[i].embs # {}
          /\ up_log[i].doc \notin documents

\* C22: a step of upload_records inserts documents with policy_id NULL and
\* llm_reinforced false only, and keeps every committed document as it is,
\* grouped or not; the one exception is the call with reset "truncate" and
\* records to upload, which empties documents and embeddings before its
\* first insert.
C22_UploadOnlyAdds ==
    [][upload_vars' # upload_vars =>
          /\ \A d \in (documents' \ documents) \cup (tx_documents' \ tx_documents) :
                d.policy_id = NULL /\ ~d.llm_reinforced
          /\ \/ documents \subseteq documents'
             \/ /\ up_pc # "loop"
                /\ reset' = "truncate"
                /\ total' > 0
                /\ inserted' = 0
                /\ up_log' = <<>>
                /\ documents' = {}
                /\ embeddings' = {}]_vars

\* a call without reset has added a document to a store that holds a
\* grouped document
C22_Witness ==
    /\ up_pc = "returned"
    /\ reset = "none"
    /\ total > 0
    /\ \E d \in entry_documents : d.policy_id # NULL /\ d \in documents
    /\ \E d \in documents \ entry_documents : d.policy_id = NULL

Returned == {rows[i] : i \in 1..Len(rows)}

\* C9: the list has at most 7 entries, each a stored embedding listed once,
\* in order of non-increasing cosine similarity to the query, and no stored
\* embedding left out is strictly more similar than one in the list.
C9_TopSevenNearest ==
    /\ Len(rows) <= SearchLimit
    /\ search_out = "list" =>
          /\ Returned \subseteq JoinRows
          /\ Cardinality(Returned) = Len(rows)
          /\ \A i, j \in 1..Len(rows) :
                i < j => CloserOrEqual(query_embedding, rows[i].embedding,
                                       rows[j].embedding)
          /\ \A x \in JoinRows \ Returned : \A i \in 1..Len(rows) :
                CloserOrEqual(query_embedding, rows[i].embedding, x.embedding)

C9_Witness ==
    /\ search_out = "list"
    /\ Len(rows) = SearchLimit
    /\ Cardinality(JoinRows) > SearchLimit
    /\ ~SameSimilarity(query_embedding, rows[1].embedding, rows[2].embedding)
    /\ \E x \in JoinRows \ Returned :
          ~SameSimilarity(query_embedding, x.embedding, rows[SearchLimit].embedding)

\* every row of the embeddings table, with its document's id
AllRows ==
    {[id |-> e.doc_id, field |-> e.field, embedding |-> e.embedding] :
        e \in embeddings}

\* the documents with a place in the list
RankedDocs == {r.id : r \in Returned}

\* C25: the list holds min(7, number of embedding rows) entries, each a
\* different (document, field) row, and they are the rows nearest to the
\* query among the rows of all documents, whatever the chatbot's region; a
\* document has as many entries as it has rows among them.
C25_RanksEmbeddingRows ==
    search_out = "list" =>
       /\ Returned \subseteq AllRows
       /\ Cardinality(Returned) = Len(rows)
       /\ Len(rows) = IF Cardinality(AllRows) < SearchLimit
                      THEN Cardinality(AllRows)
                      ELSE SearchLimit
       /\ \A x \in AllRows \ Returned : \A i \in 1..Len(rows) :
             CloserOrEqual(query_embedding, rows[i].embedding, x.embedding)
       /\ \A i, j \in 1..Len(rows) :
             i < j => CloserOrEqual(query_embedding, rows[i].embedding,
                                    rows[j].embedding)

\* seven documents have embeddings, the list is full, one document holds
\* three of its places and fewer than seven documents appear in it, one of
\* them outside the region the chatbot was made for
C25_Witness ==
    /\ search_out = "list"
    /\ Len(rows) = SearchLimit
    /\ Cardinality({e.doc_id : e \in embeddings}) >= SearchLimit
    /\ \E id \in RankedDocs :
          Cardinality({r \in Returned : r.id = id}) = Cardinality(Fields)
    /\ Cardinality(RankedDocs) < SearchLimit
    /\ bot_region = "seocho"
    /\ \E id \in RankedDocs : [id |-> id, region |-> "gangnam"] \in doc_region
    /\ \A id \in structured_data : [id |-> id, region |-> "seocho"] \in doc_region

\* C10: of two candidates with equal similarity the one with the smaller
\* document id comes first, and at the cut after the 7th place it is the one
\* kept.
C10_TieBreakById ==
    search_out = "list" =>
        /\ \A i, j \in 1..Len(rows) :
              (i < j /\ SameSimilarity(query_embedding, rows[i].embedding,
                                       rows[j].embedding))
                  => rows[i].id <= rows[j].id
        /\ \A x \in JoinRows \ Returned : \A i \in 1..Len(rows) :
              SameSimilarity(query_embedding, rows[i].embedding, x.embedding)
                  => rows[i].id <= x.id

\* C11: a second call with the same query on the same store returns the list
\* the first call returned, in the same order: every list the query may
\* produce on this store is the list that was returned.
C11_RepeatedCallSameList ==
    search_out = "list" =>
        \A res \in OrderByLimit(JoinRows, query_embedding, SearchLimit) :
            res = rows

\* C12: when the query ran and yielded no rows, the tool returns the
\* "no results" sentinel, and it returns the sentinel only then.
C12_EmptyResultIsSentinel ==
    /\ (fetched /\ rows = <<>>) => search_out = "no_results"
    /\ search_out = "no_results" => (fetched /\ JoinRows = {})

C12_Witness ==
    /\ search_out = "no_results"
    /\ documents # {}
    /\ embeddings = {}

\* C13: a call of the tool, at any point of a grouper run, leaves the store
\* and the grouper's state as they were, and the list it returns is one the
\* query also produces on the store with every policy_id set to NULL.
C13_SearchIgnoresGrouping ==
    [][(search_out = "none" /\ search_out' # "none") =>
          /\ UNCHANGED <<store_vars, group_vars>>
          /\ rows' \in OrderByLimit(Join(ResetAll(documents), embeddings),
                                     query_embedding', SearchLimit)]_vars

C13_Witness ==
    /\ search_out = "list"
    /\ g_pc = "running"
    /\ batch_open
    /\ pending # {}
    /\ \E i, j \in 1..Len(rows) :
          /\ \E d \in documents : d.id = rows[i].id /\ d.policy_id = NULL
          /\ \E d \in documents : d.id = rows[j].id /\ d.policy_id # NULL

(***************************************************************************)
(* Properties of the agent loop                                            *)
(***************************************************************************)
\* the lines of Lines that are a termination command, a reset command, or
\* blank, once trimmed and lower-cased
TerminationLines ==
    {<<"e", "x", "i", "t">>,
     <<" ", "E", "X", "I", "T", " ">>,
     <<"Q", "u", "i", "t">>,
     <<"jong", "ryo", "\n">>}
ResetLines ==
    {<<"r", "e", "s", "e", "t">>,
     <<"C", "L", "E", "A", "R", " ">>,
     <<"\t", "cho", "gi", "hwa">>}
BlankLines == {<<>>, <<" ", " ">>}

\* the loop took a line from input()
LineRead == loop_pc = "idle" /\ agent_vars' # agent_vars

\* C14: from Idle, a termination command leads to Exit, a reset command to
\* Reset and back to Idle, a blank line back to Idle, every other line to
\* Responding; Responding leads only back to Idle, and Exit is left by
\* nothing.
C14_LoopTransitions ==
    [][/\ LineRead =>
             IF raw_input' \in TerminationLines
             THEN loop_pc' = "exit" /\ route' = "exit"
             ELSE IF raw_input' \in ResetLines
             THEN loop_pc' = "idle" /\ route' = "reset"
             ELSE IF raw_input' \in BlankLines
             THEN loop_pc' = "idle" /\ route' = "empty"
             ELSE loop_pc' = "responding" /\ route' = "turn"
       /\ loop_pc = "responding" => loop_pc' \in {"responding", "idle"}
       /\ loop_pc = "exit" => UNCHANGED agent_vars]_vars

C14_Witness ==
    /\ loop_pc = "exit"
    /\ raw_input = <<" ", "E", "X", "I", "T", " ">>
    /\ turns > 0
    /\ cleared > 0

\* C15: a reset command empties the turn history and leaves the loop in
\* Idle; the executor is not started and the store is not written.
C15_ResetClearsHistoryOnly ==
    [][(LineRead /\ raw_input' \in ResetLines) =>
          /\ chat_history' = <<>>
          /\ loop_pc' = "idle"
          /\ UNCHANGED <<ex_pc, iterations, events, turns, full_response>>
          /\ UNCHANGED <<store_vars, search_vars, user_vars>>]_vars

C15_Witness ==
    /\ loop_pc = "idle"
    /\ route = "reset"
    /\ cleared > 0
    /\ chat_history = <<>>
    /\ documents # {}

\* C16: a turn makes at most max_iterations tool-call rounds; a turn that
\* has made them ends with the executor stopped and the answer streamed so
\* far stored as the turn's reply, the loop back in Idle; and every turn
\* ends.
C16_TurnEndsWithinCap ==
    /\ [](iterations <= max_iterations)
    /\ [](ex_pc = "stopped" => iterations = max_iterations)
    /\ (loop_pc = "responding" /\ iterations = max_iterations)
          ~> (/\ loop_pc = "idle"
              /\ ex_pc = "stopped"
              /\ IF chat_history = <<>>
                 THEN FALSE
                 ELSE chat_history[Len(chat_history)] =
                         [role |-> "ai", content |-> produced])
    /\ (loop_pc = "responding") ~> (loop_pc = "idle")

C16_Witness ==
    /\ loop_pc = "idle"
    /\ route = "turn"
    /\ ex_pc = "stopped"
    /\ iterations = max_iterations
    /\ Len(chat_history) = 2

\* C17: while the loop waits for a line no turn is in progress: the executor
\* is not running, every event it sent has been consumed, and the history
\* holds the question and the whole streamed answer of the turn that ended.
C17_OneTurnAtATime ==
    /\ loop_pc \in {"idle", "exit"} => (ex_pc # "plan" /\ events = <<>>)
    /\ (loop_pc = "idle" /\ route = "turn" /\ ex_pc \in {"done", "stopped"}) =>
          /\ Len(chat_history) >= 2
          /\ chat_history[Len(chat_history) - 1] =
                [role |-> "human", content |-> user_input]
          /\ chat_history[Len(chat_history)] =
                [role |-> "ai", content |-> produced]

C17_Witness ==
    /\ loop_pc = "idle"
    /\ route = "turn"
    /\ ex_pc = "done"
    /\ iterations >= 1
    /\ produced # <<>>

C20_SignupAllOrNothing ==
    signups > 0 =>
        IF cu_result.ok
        THEN \E u \in users, p \in profiles, c \in collections :
                 /\ u \notin cu_entry.users
                 /\ users = cu_entry.users \cup {u}
                 /\ profiles = cu_entry.profiles \cup {p}
                 /\ collections = cu_entry.collections \cup {c}
                 /\ p \notin cu_entry.profiles
                 /\ c \notin cu_entry.collections
                 /\ u.username = cu_username
                 /\ u.main_profile_id = p.id
                 /\ p.user_id = u.id
                 /\ c.profile_id = p.id
        ELSE /\ users = cu_entry.users
             /\ profiles = cu_entry.profiles
             /\ collections = cu_entry.collections
             /\ cu_result.message # "success"
             /\ (/\ cu_fault \notin {"connect", "validate"}
                 /\ \E u \in cu_entry.users : u.username = cu_username)
                   => cu_result.message = "id_in_use"

C20_Witness ==
    /\ ~cu_result.ok
    /\ cu_fault = "update_user"
    /\ users # {}
    /\ profile_seq = 2
    /\ collection_seq = 2

\* C27: a returned assemble has regenerated the rolling summary exactly when
\* the state's turn_count is a multiple of 15, a missing or zero turn_count
\* not counting as one; when it has not, the returned rolling_summary is the
\* previous one; it returns exactly one message, a tool message whose
\* summary_updated flag says whether the summary was regenerated.
C27_SummaryEveryFifteenTurns ==
    as_out = "returned" =>
       LET tc == as_state.turn_count
           multiple == tc.given /\ tc.value # 0 /\ tc.value % 15 = 0
       IN /\ as_summarized <=> multiple
          /\ ~multiple => as_result.rolling_summary = as_state.rolling_summary
          /\ multiple => as_result.rolling_summary \in LlmOutputs
          /\ Len(as_result.messages) = 1
          /\ as_result.messages[1].role = "tool"
          /\ as_result.messages[1].summary_updated = as_summarized
          /\ as_result.messages[1].summary = as_result.rolling_summary

C27_Witness ==
    /\ as_out = "returned"
    /\ as_state.turn_count = [given |-> TRUE, value |-> 30]
    /\ as_summarized
    /\ as_state.rolling_summary = "s1"
    /\ as_result.rolling_summary = "s2"
    /\ as_result.messages[1].summary_updated

\* C28: a call of save_full_conversation with an empty list issues no
\* statement and returns "no_messages_to_save"; with a non-empty list its
\* first statement inserts the conversation row under an id no earlier
\* conversation has, every later statement inserts a message row carrying
\* that id, the k-th message of the list with turn_index k - 1; a call whose
\* statement failed raises ConversationSaveError, and a call none of whose
\* statements failed has issued one statement per message and returns the id.
C28_ConversationSaved ==
    sv_result.kind # "not_called" =>
       IF sv_messages = <<>>
       THEN sv_log = <<>> /\ sv_result.kind = "no_messages_to_save"
       ELSE /\ Len(sv_log) >= 1
            /\ sv_log[1].table = "conversations"
            /\ sv_log[1].row.id = conv_seq
            /\ \A c \in conversations :
                  c.id = conv_seq => sv_log[1].ok /\ c = sv_log[1].row
            /\ \A i \in 2..Len(sv_log) :
                  /\ sv_log[i].table = "messages"
                  /\ sv_log[i].row.conversation_id = sv_log[1].row.id
                  /\ sv_log[i].row.turn_index = i - 2
                  /\ sv_log[i].row.role = sv_messages[i - 1].role
                  /\ sv_log[i].row.content = sv_messages[i - 1].content
            /\ \A i \in 1..Len(sv_log) :
                  sv_log[i].ok <=>
                     sv_log[i].row \in
                        (IF i = 1 THEN conversations ELSE chat_messages)
            /\ (\E i \in 1..Len(sv_log) : ~sv_log[i].ok)
                  <=> sv_result.kind = "ConversationSaveError"
            /\ sv_result.kind # "ConversationSaveError" =>
                  /\ sv_result = [kind |-> "conversation_id", id |-> sv_log[1].row.id]
                  /\ Len(sv_log) = Len(sv_messages) + 1

C28_Witness ==
    /\ sv_calls = 2
    /\ sv_result = [kind |-> "conversation_id", id |-> 2]
    /\ Len(sv_messages) = 2
    /\ Cardinality({m \in chat_messages : m.conversation_id = 2}) = 2
    /\ \E m \in chat_messages : m.conversation_id = 1

\* C29: _normalize_sex returns "M" for every spelling of male, "F" for every
\* spelling of female, in any letter case, and None for the empty string.
MaleSpellings ==
    {<<"nam", "seong">>, <<"nam">>, <<"m", "a", "l", "e">>, <<"m">>}
FemaleSpellings ==
    {<<"yeo", "seong">>, <<"yeo">>, <<"f", "e", "m", "a", "l", "e">>, <<"f">>}

C29_SexNormalized ==
    ns_result # "not_called" =>
       /\ LowerStr(ns_gender) \in MaleSpellings => ns_result = "M"
       /\ LowerStr(ns_gender) \in FemaleSpellings => ns_result = "F"
       /\ ns_gender = <<>> => ns_result = None

\* C30: when an operation of the user repository has returned, on any path,
\* no connection it opened is still open.
C30_ConnectionsReleased == open_conns = 0

(***************************************************************************)
(* Properties of the command-line programs                                 *)
(***************************************************************************)
\* C21: each of the two mains (the pipeline's and the chatbot's) ends with
\* exit code 1 exactly when an error escaped one of its operations, and with
\* exit code 0 otherwise.
C21_ExitCodeTellsError ==
    /\ pm_pc = "exited" => (pm_exit = ExitError <=> pm_error)
    /\ cm_pc = "exited" => (cm_exit = ExitError <=> cm_error)

\* C26: main calls collect, upload, group in this order and each at most
\* once; the grouper runs only with --group and after upload_records has
\* returned; after a failed upload there is no second upload and no grouping
\* and the exit code is 1; when nothing was collected neither upload nor
\* grouping runs.
C26_CollectUploadGroup ==
    /\ Len(pm_trace) <= Len(PipelineSteps)
    /\ \A i \in 1..Len(pm_trace) : pm_trace[i] = PipelineSteps[i]
    /\ calls <= 1
    /\ up_pc # "idle" <=> Len(pm_trace) >= 2
    /\ g_pc # "idle" <=> Len(pm_trace) = 3
    /\ g_pc # "idle" => pm_group /\ up_pc = "returned"
    /\ up_pc = "raised" =>
          /\ g_pc = "idle"
          /\ pm_pc \in {"uploading", "exited"}
          /\ pm_pc = "exited" => pm_exit = ExitError
    /\ (Len(pm_trace) >= 1 /\ mem_data = 0) =>
          /\ up_pc = "idle"
          /\ g_pc = "idle"
          /\ pm_pc = "exited"
          /\ pm_exit = ExitOk \/ pm_error

\* main has exited after an upload that failed although --group was given
C26_Witness ==
    /\ pm_pc = "exited"
    /\ pm_group
    /\ up_pc = "raised"
    /\ fail_k = 2
    /\ g_pc = "idle"
    /\ pm_exit = ExitError

(***************************************************************************)
(* Properties of the chatbot object                                        *)
(***************************************************************************)
\* C24: the executor is set only with the vector store set, and the vector
\* store only after load_vector_store found embeddings; the conversation
\* starts only with the executor set; setup_agent raises without the vector
\* store and run_conversation without the executor; an initialize that
\* loaded no document, or found the embeddings table empty or unreadable,
\* raises and leaves the executor as it was.
C24_InitializedInOrder ==
    /\ [](/\ agent_executor => vector_store
          /\ vector_store => vs_found
          /\ loop_pc # "off" => agent_executor
          /\ (bot_call.method = "setup_agent" /\ ~vector_store) => bot_call.raised
          /\ (bot_call.method = "run_conversation" /\ ~agent_executor)
                => bot_call.raised
          /\ (bot_call.method = "initialize" /\ ~bot_call.raised)
                => structured_data # {} /\ vector_store /\ agent_executor)
    /\ [][(/\ bot_call'.method = "initialize"
           /\ bot_call' # bot_call \/ structured_data' # structured_data
           /\ \/ structured_data' = {}
              \/ embeddings = {}
              \/ bot_call'.fault = "unreadable")
          => /\ bot_call'.raised
             /\ agent_executor' = agent_executor]_vars

\* initialize loaded documents, found no embedding and raised, and the
\* executor is not set
C24_Witness ==
    /\ bot_call.method = "initialize"
    /\ bot_call.raised
    /\ bot_call.fault = "none"
    /\ structured_data # {}
    /\ embeddings = {}
    /\ ~agent_executor
    /\ ~vector_store

(***************************************************************************)
(* Properties of the grouper                                               *)
(***************************************************************************)
PolicyOf(id) == (CHOOSE d \in documents : d.id = id).policy_id

\* the documents this run grouped whose batch is committed
CommittedIds == UNION {batch_log[i].docs : i \in 1..n_batches}

\* the documents that were grouped when the run began its first batch
StartGrouped == {d.id : d \in {x \in start_docs : x.policy_id # NULL}}

\* the comparison set document id met: the representatives the run started
\* with and the documents it had processed before id
CandidatesFor(id) ==
    LET grouped == StartGrouped
    IN  {c \in run_index :
            \/ c.id < id /\ c.id \notin grouped
            \/ c.id \in grouped}

\* the candidates of id that reach the threshold and that no candidate of
\* id exceeds in similarity
BestFor(id) ==
    LET v == TitleEmbedding(id)
        cands == CandidatesFor(id)
    IN  {c \in cands :
            /\ SimAtLeast(v, c.embedding)
            /\ \A o \in cands : CloserOrEqual(v, c.embedding, o.embedding)}

\* C1: in one run, a document whose most similar candidate reaches the
\* threshold gets that candidate's policy_id, so two documents whose most
\* similar candidate is the same representative end with the same policy_id;
\* a document whose best similarity is below the threshold founds a group of
\* its own, under its own id.
C1_SameRepresentativeSameGroup ==
    LET best == [id \in CommittedIds |-> BestFor(id)]
    IN  /\ \A id \in CommittedIds :
              IF best[id] = {}
              THEN /\ PolicyOf(id) = id
                   /\ \A d \in start_docs :
                         d.policy_id = id => reset_all_on_start
              ELSE PolicyOf(id) \in {c.policy_id : c \in best[id]}
        /\ \A id1, id2 \in CommittedIds :
              (best[id1] = best[id2] /\ Cardinality(best[id1]) = 1)
                  => PolicyOf(id1) = PolicyOf(id2)

C1_Witness ==
    /\ g_pc = "done"
    /\ \E id1, id2, id3 \in CommittedIds : \E c \in run_index :
          /\ id1 # id2
          /\ c.id \notin {id1, id2}
          /\ c.id = c.policy_id
          /\ BestFor(id1) = {c}
          /\ BestFor(id2) = {c}
          /\ Cardinality(CandidatesFor(id2)) > 1
          /\ CandidatesFor(id3) # {}
          /\ BestFor(id3) = {}

\* C2: at every point of a run, also after a crash or a failed commit, the
\* grouped documents of each committed batch all hold the policy_id the run
\* gave them, and those of the batch in flight are all still NULL.
C2_BatchAtomic ==
    \A i \in 1..Len(batch_log) : \A id \in batch_log[i].docs :
        IF i <= n_batches
        THEN /\ PolicyOf(id) # NULL
             /\ \E c \in run_index : c.id = id /\ c.policy_id = PolicyOf(id)
        ELSE PolicyOf(id) = NULL

C2_Witness ==
    /\ g_pc \in {"failed", "crashed"}
    /\ n_batches = 1
    /\ Len(batch_log) = 2
    /\ Cardinality(batch_log[1].docs) = 2
    /\ batch_log[2].docs # {}
    /\ batch # <<>>

\* C3: a run started without reset right after a completed run, with no
\* upload in between, changes no document and founds and merges nothing.
C3_SecondRunChangesNothing ==
    (after_done /\ g_pc \in {"running", "done", "failed", "crashed"}) =>
        /\ documents = start_docs
        /\ pending = {}
        /\ founded = 0
        /\ merged = 0

C3_Witness ==
    /\ after_done
    /\ g_pc = "done"
    /\ \E d \in documents : d.policy_id # NULL /\ d.policy_id # d.id
    /\ \E d \in documents : d.policy_id = NULL
    /\ seen # <<>>

\* C4: a run started without reset takes only documents whose policy_id was
\* NULL when it started, in ascending id order, and leaves every document
\* that was grouped then as it was.
C4_OnlyUngroupedTouched ==
    (g_pc # "idle" /\ ~reset_all_on_start) =>
        /\ \A d \in start_docs : d.policy_id # NULL => d \in documents
        /\ \A i \in 1..Len(seen) :
              \E d \in start_docs : d.id = seen[i] /\ d.policy_id = NULL
        /\ \A i, j \in 1..Len(seen) : i < j => seen[i] < seen[j]
        /\ \A i \in 1..Len(batch) : batch[i] \notin StartGrouped

C4_Witness ==
    /\ g_pc = "done"
    /\ ~reset_all_on_start
    /\ StartGrouped # {}
    /\ Len(seen) >= 2
    /\ CommittedIds # {}

\* C5: a document without title embedding is skipped: its policy_id stays
\* NULL, the other documents of its batch are grouped and committed, and
\* every run that completes has taken it from a batch again.
C5_MissingEmbeddingSkipped ==
    /\ \A d \in documents : TitleEmbedding(d.id) = NoVec => d.policy_id = NULL
    /\ \A i \in 1..n_batches :
          /\ \A id \in batch_log[i].skipped : PolicyOf(id) = NULL
          /\ \A id \in batch_log[i].docs : PolicyOf(id) # NULL
    /\ g_pc = "done" =>
          \A d \in documents :
              IF TitleEmbedding(d.id) = NoVec
              THEN \E i \in 1..Len(batch_log) : d.id \in batch_log[i].skipped
              ELSE d.policy_id # NULL

C5_Witness ==
    /\ g_pc = "done"
    /\ ~reset_all_on_start
    /\ \E i \in 1..n_batches :
          /\ batch_log[i].docs # {}
          /\ \E id \in batch_log[i].skipped :
                /\ \E g \in StartGrouped : id < g
                /\ \E id2 \in batch_log[i].docs : id < id2

====
